---- MODULE Spec2Model ----
(***************************************************************************)
(* A model of the chain engine of pyfatfs.PyFat (src/pyfatfs/PyFat.py):    *)
(* the in-memory FAT, cluster-chain traversal (get_cluster_chain),         *)
(* allocation (allocate_bytes), freeing (free_cluster_chain) and           *)
(* cluster writes with chain extension (write_data_to_cluster).            *)
(*                                                                         *)
(* The FAT is the Python list self.fat, indexed from 0; it is modelled as  *)
(* a TLA+ sequence, cell i of the list being element i + 1 (see At, Put).  *)
(* Cell values keep their real FAT12/16/32 magnitudes (PyFat.py:61-86);    *)
(* the size of the table and of a cluster are scaled down.                 *)
(***************************************************************************)
EXTENDS Integers, Sequences, FiniteSets, TLC

VARIABLES
    fat_type,            \* self.fat_type
    fat,                 \* self.fat
    first_free_cluster,  \* self.first_free_cluster
    disk,                \* data region of the container: cluster -> bytes
    gen,                 \* a running get_cluster_chain generator
    last,                \* the observed call: arguments, outcome, state before
    chains,              \* heads of the chains allocated and not freed
    img,                 \* the bytes of the container (self.__fp), address 0 first
    geom,                \* the BPB fields of the image that no operation changes
    bpb_header,          \* self.bpb_header: the fields the operations change
    initialized,         \* self.initialized
    is_read_only,        \* self.is_read_only
    fp,                  \* self.__fp: "none", "open" or "closed"
    warnings,            \* the diagnostics warnings.warn emitted in the last open
    run,                 \* the call in progress: close() or an open_fs scope
    hist,                \* what has happened to the container so far
    lock,                \* self.__lock: 0 when free, else the thread holding it
    pos,                 \* the position of self.__fp, set by seek, moved by I/O
    threads              \* the call each thread is in: its position and locals

\* The state of a volume on a container
volvars == <<img, geom, bpb_header, initialized, is_read_only, fp, warnings,
             run, hist, lock, pos, threads>>

\* The lock, the file position and the threads
thrvars == <<lock, pos, threads>>

vars == <<fat_type, fat, first_free_cluster, disk, gen, last, chains, img, geom,
          bpb_header, initialized, is_read_only, fp, warnings, run, hist,
          lock, pos, threads>>

----------------------------------------------------------------------------
(* Bounds of the model *)

\* len(self.fat): number of cells of the tables every Init enumerates
NumCells == 5
\* self.bytes_per_cluster, scaled down (BPB_BytsPerSec * BPB_SecPerClus)
BytesPerCluster == 2
\* the size of a boot sector, scaled down from 512 bytes
BootSectorSize == 4
\* the largest FATSz * BytsPerSec (bytes of one FAT copy) of the FAT12 images
MaxFatSize == 10
\* BPB_RootEntCnt of the FAT12/16 images, a directory record scaled to a byte
RootEntCnt == 2

----------------------------------------------------------------------------
(* Cluster values, PyFat.py:46-86 *)

\* BPB_NumFATs of the images: the number_of_fats mkfs writes by default
NumFATs == 2

FAT_TYPE_FAT12 == 12
FAT_TYPE_FAT16 == 16
FAT_TYPE_FAT32 == 32
FatTypes == {FAT_TYPE_FAT12, FAT_TYPE_FAT16, FAT_TYPE_FAT32}

FAT12_SPECIAL_EOC == 4080                      \* 0xFF0

FREE_CLUSTER(ft) == 0
MIN_DATA_CLUSTER(ft) == 2
MAX_DATA_CLUSTER(ft) ==
    CASE ft = FAT_TYPE_FAT12 -> 4079           \* 0xFEF
      [] ft = FAT_TYPE_FAT16 -> 65519          \* 0xFFEF
      [] OTHER               -> 268435439      \* 0x0FFFFFEF
BAD_CLUSTER(ft) ==
    CASE ft = FAT_TYPE_FAT12 -> 4087           \* 0xFF7
      [] ft = FAT_TYPE_FAT16 -> 65527          \* 0xFFF7
      [] OTHER               -> 268435447      \* 0xFFFFFF7
END_OF_CLUSTER_MIN(ft) ==
    CASE ft = FAT_TYPE_FAT12 -> 4088           \* 0xFF8
      [] ft = FAT_TYPE_FAT16 -> 65528          \* 0xFFF8
      [] OTHER               -> 268435448      \* 0xFFFFFF8
END_OF_CLUSTER_MAX(ft) ==
    CASE ft = FAT_TYPE_FAT12 -> 4095           \* 0xFFF
      [] ft = FAT_TYPE_FAT16 -> 65535          \* 0xFFFF
      [] OTHER               -> 268435455      \* 0xFFFFFFF

----------------------------------------------------------------------------
(* The Python list self.fat *)

At(f, i) == f[i + 1]                           \* self.fat[i]
Put(f, i, v) == [f EXCEPT ![i + 1] = v]        \* self.fat[i] = v
FatLen(f) == Len(f)                            \* len(self.fat)
Cells(f) == 0 .. (FatLen(f) - 1)               \* the valid indices
DataCells(f) == 2 .. (FatLen(f) - 1)           \* cells that name clusters

SeqMin(s, m) ==                                \* min over m and the elements
    LET S == {s[k] : k \in 1 .. Len(s)} \cup {m}
    IN  CHOOSE x \in S : \A y \in S : x <= y
SeqSet(s) == {s[k] : k \in 1 .. Len(s)}

----------------------------------------------------------------------------
(* get_cluster_chain, PyFat.py:797-833 *)

\* Faulty variant of ChainStepKind: the FAT12 branch of lines 811-815 is
\* missing, so 0xFF0 falls through to the invalid-value branch.
ChainStepKind_NoSpecialEoc(ft, f, i) ==
    IF ~(i <= Len(f)) THEN "exhausted"
    ELSE IF i \notin 0 .. (Len(f) - 1) THEN "IndexError"
    ELSE LET v == f[i + 1] IN
         IF MIN_DATA_CLUSTER(ft) <= v /\ v <= MAX_DATA_CLUSTER(ft) THEN "data"
         ELSE IF END_OF_CLUSTER_MIN(ft) <= v /\ v <= END_OF_CLUSTER_MAX(ft)
              THEN "eoc"
         ELSE IF v = BAD_CLUSTER(ft) THEN "bad"
         ELSE IF v = FREE_CLUSTER(ft) THEN "free"
         ELSE "invalid"

\* One evaluation of the loop test and of the if/elif ladder at index i:
\* what the generator does next.
ChainStepKind(ft, f, i) ==
    IF ~(i <= FatLen(f)) THEN "exhausted"      \* while condition false: return
    ELSE IF i \notin Cells(f) THEN "IndexError" \* self.fat[len(self.fat)]
    ELSE LET v == At(f, i) IN
         IF MIN_DATA_CLUSTER(ft) <= v /\ v <= MAX_DATA_CLUSTER(ft) THEN "data"
         ELSE IF ft = FAT_TYPE_FAT12 /\ v = FAT12_SPECIAL_EOC THEN "eoc"
         ELSE IF END_OF_CLUSTER_MIN(ft) <= v /\ v <= END_OF_CLUSTER_MAX(ft)
              THEN "eoc"
         ELSE IF v = BAD_CLUSTER(ft) THEN "bad"
         ELSE IF v = FREE_CLUSTER(ft) THEN "free"
         ELSE "invalid"

Yields(kind) == kind \in {"data", "eoc"}
Raises(kind) == kind \in {"bad", "free", "invalid", "IndexError"}

\* The whole traversal from index i, having yielded acc: the cells yielded and
\* how the generator ends. A traversal that has yielded more cells than the
\* table holds has entered a cycle and never ends ("loop").
RECURSIVE ChainFrom(_, _, _, _)
ChainFrom(ft, f, i, acc) ==
    LET kind == ChainStepKind(ft, f, i) IN
    IF Len(acc) > FatLen(f) THEN [cells |-> acc, end |-> "loop"]
    ELSE IF kind = "data" THEN ChainFrom(ft, f, At(f, i), Append(acc, i))
    ELSE IF kind = "eoc" THEN [cells |-> Append(acc, i), end |-> "eoc"]
    ELSE [cells |-> acc, end |-> kind]

get_cluster_chain(ft, f, first_cluster) == ChainFrom(ft, f, first_cluster, <<>>)

----------------------------------------------------------------------------
(* read_cluster_contents, PyFat.py:140-151 *)

read_cluster_contents(d, cluster) == d[cluster]

----------------------------------------------------------------------------
(* allocate_bytes, PyFat.py:502-571 *)

\* calc_num_clusters: math.ceil(size / self.bytes_per_cluster)
calc_num_clusters(size) == (size + BytesPerCluster - 1) \div BytesPerCluster

\* The for loop of lines 530-555 from index i on, acc being free_clusters.
\* found is FALSE when the range is exhausted (the for's else branch, which
\* raises); otherwise i is the index at which the loop broke.
RECURSIVE AllocScan(_, _, _, _, _)
AllocScan(ft, f, i, num_clusters, acc) ==
    IF i >= FatLen(f) THEN [found |-> FALSE, clusters |-> acc, i |-> i]
    ELSE IF MIN_DATA_CLUSTER(ft) > i \/ i > MAX_DATA_CLUSTER(ft)
         THEN AllocScan(ft, f, i + 1, num_clusters, acc)
    ELSE IF num_clusters = Len(acc)
         THEN [found |-> TRUE, clusters |-> acc, i |-> i]
    ELSE IF At(f, i) = FREE_CLUSTER(ft)
         THEN IF i = BAD_CLUSTER(ft)
              THEN AllocScan(ft, f, i + 1, num_clusters, acc)
              ELSE IF ft = FAT_TYPE_FAT12 /\ i = FAT12_SPECIAL_EOC
              THEN AllocScan(ft, f, i + 1, num_clusters, acc)
              ELSE AllocScan(ft, f, i + 1, num_clusters, Append(acc, i))
    ELSE AllocScan(ft, f, i + 1, num_clusters, acc)

\* Faulty variant of LinkChain: the IndexError branch of line 563 is missing,
\* so the last collected cell keeps its value.
LinkChain_NoTerminator(ft, f, clusters) ==
    [j \in 1 .. Len(f) |->
        IF \E k \in 1 .. (Len(clusters) - 1) : clusters[k] = j - 1
        THEN LET k == CHOOSE k \in 1 .. (Len(clusters) - 1) : clusters[k] = j - 1
             IN  clusters[k + 1]
        ELSE f[j]]

\* Lines 557-563: each collected cell points to the next, the last gets
\* END_OF_CLUSTER_MAX.
LinkChain(ft, f, clusters) ==
    [j \in 1 .. Len(f) |->
        IF \E k \in 1 .. Len(clusters) : clusters[k] = j - 1
        THEN LET k == CHOOSE k \in 1 .. Len(clusters) : clusters[k] = j - 1
             IN  IF k < Len(clusters) THEN clusters[k + 1]
                 ELSE END_OF_CLUSTER_MAX(ft)
        ELSE f[j]]

\* Faulty variant of EraseClusters: only the first cluster is zeroed.
EraseClusters_FirstOnly(d, clusters) ==
    [c \in DOMAIN d |->
        IF clusters # <<>> /\ c = clusters[1]
        THEN [k \in 1 .. BytesPerCluster |-> 0]
        ELSE d[c]]

\* Lines 565-569: b'\0' * bytes_per_cluster written to each cluster.
EraseClusters(d, clusters) ==
    [c \in DOMAIN d |->
        IF c \in SeqSet(clusters) THEN [k \in 1 .. BytesPerCluster |-> 0]
        ELSE d[c]]

\* Faulty variant of allocate_bytes: first_free_cluster is set to the index
\* the loop ended at also when the loop found too few free cells.
allocate_bytes_HintOnFailure(ft, f, fff, d, size, erase) ==
    LET scan == AllocScan(ft, f, fff, calc_num_clusters(size), <<>>) IN
    IF ~scan.found
    THEN [outcome |-> "ENOSPC", result |-> <<>>,
          fat |-> f, first_free_cluster |-> scan.i, disk |-> d]
    ELSE [outcome |-> "ok", result |-> scan.clusters,
          fat |-> LinkChain(ft, f, scan.clusters),
          first_free_cluster |-> scan.i,
          disk |-> IF erase THEN EraseClusters(d, scan.clusters) ELSE d]

\* The whole call: its outcome, the list it returns and the state it leaves.
allocate_bytes(ft, f, fff, d, size, erase) ==
    LET scan == AllocScan(ft, f, fff, calc_num_clusters(size), <<>>) IN
    IF ~scan.found
    THEN [outcome |-> "ENOSPC", result |-> <<>>,
          fat |-> f, first_free_cluster |-> fff, disk |-> d]
    ELSE [outcome |-> "ok", result |-> scan.clusters,
          fat |-> LinkChain(ft, f, scan.clusters),
          first_free_cluster |-> scan.i,
          disk |-> IF erase THEN EraseClusters(d, scan.clusters) ELSE d]

----------------------------------------------------------------------------
(* free_cluster_chain, PyFat.py:419-432 *)

\* Faulty variant of FreeCells: only the head of the chain is set to FREE.
FreeCells_HeadOnly(ft, f, cells) ==
    [j \in 1 .. Len(f) |->
        IF cells # <<>> /\ j - 1 = cells[1] THEN FREE_CLUSTER(ft) ELSE f[j]]

\* tmp_fat after the for loop has run over the cells yielded
FreeCells(ft, f, cells) ==
    [j \in 1 .. Len(f) |->
        IF (j - 1) \in SeqSet(cells) THEN FREE_CLUSTER(ft) ELSE f[j]]

\* Faulty variant of free_cluster_chain: the loop writes self.fat itself, not
\* a copy, so the cells visited before an error stay FREE.
free_cluster_chain_InPlace(ft, f, fff, cluster) ==
    LET chain == get_cluster_chain(ft, f, cluster) IN
    [outcome |-> IF chain.end \in {"eoc", "exhausted"} THEN "ok"
                 ELSE IF chain.end = "loop" THEN "hang" ELSE chain.end,
     freed |-> chain.cells,
     fat |-> [j \in 1 .. Len(f) |->
                IF (j - 1) \in SeqSet(chain.cells) THEN FREE_CLUSTER(ft)
                ELSE f[j]],
     first_free_cluster |-> SeqMin(chain.cells, fff)]

\* Faulty variant of free_cluster_chain: first_free_cluster is not lowered.
free_cluster_chain_KeepHint(ft, f, fff, cluster) ==
    LET chain == get_cluster_chain(ft, f, cluster) IN
    [outcome |-> IF chain.end \in {"eoc", "exhausted"} THEN "ok"
                 ELSE IF chain.end = "loop" THEN "hang" ELSE chain.end,
     freed |-> chain.cells,
     fat |-> IF chain.end \in {"eoc", "exhausted"}
             THEN [j \in 1 .. Len(f) |->
                     IF (j - 1) \in SeqSet(chain.cells) THEN FREE_CLUSTER(ft)
                     ELSE f[j]]
             ELSE f,
     first_free_cluster |-> fff]

\* The loop sets tmp_fat and lowers first_free_cluster cell by cell; self.fat
\* is assigned only when the generator ends without raising. On a cyclic
\* chain the loop never ends ("hang").
free_cluster_chain(ft, f, fff, cluster) ==
    LET chain == get_cluster_chain(ft, f, cluster) IN
    [outcome |-> IF chain.end \in {"eoc", "exhausted"} THEN "ok"
                 ELSE IF chain.end = "loop" THEN "hang" ELSE chain.end,
     freed |-> chain.cells,
     fat |-> IF chain.end \in {"eoc", "exhausted"}
             THEN FreeCells(ft, f, chain.cells) ELSE f,
     first_free_cluster |-> SeqMin(chain.cells, fff)]

----------------------------------------------------------------------------
(* write_data_to_cluster, PyFat.py:434-484 *)

\* Lines 452-458: the capacity walk from index i. last_cluster = -1 stands
\* for None. The generator is consumed only until cluster_sz >= data_sz.
RECURSIVE CapacityWalk(_, _, _, _, _, _)
CapacityWalk(ft, f, i, data_sz, cluster_sz, last_cluster) ==
    LET kind == ChainStepKind(ft, f, i) IN
    IF Raises(kind)
    THEN [error |-> kind, cluster_sz |-> cluster_sz, last_cluster |-> last_cluster]
    ELSE IF kind = "exhausted"
    THEN [error |-> "none", cluster_sz |-> cluster_sz, last_cluster |-> last_cluster]
    ELSE IF cluster_sz + BytesPerCluster >= data_sz \/ kind = "eoc"
    THEN [error |-> "none", cluster_sz |-> cluster_sz + BytesPerCluster,
          last_cluster |-> i]
    ELSE CapacityWalk(ft, f, At(f, i), data_sz, cluster_sz + BytesPerCluster, i)

\* data[t:bytes_written]
Slice(data, t, u) ==
    LET hi == IF u < Len(data) THEN u ELSE Len(data) IN
    IF t >= hi THEN <<>> ELSE SubSeq(data, t + 1, hi)

\* _write_data_to_address at the address of cluster c: the chunk replaces the
\* first len(chunk) bytes of the cluster.
WriteChunk(d, c, chunk) ==
    [d EXCEPT ![c] = [k \in 1 .. BytesPerCluster |->
                         IF k <= Len(chunk) THEN chunk[k] ELSE d[c][k]]]

\* Lines 477-484: the write loop from index i.
RECURSIVE WriteWalk(_, _, _, _, _, _)
WriteWalk(ft, f, i, data, bytes_written, d) ==
    LET kind == ChainStepKind(ft, f, i) IN
    IF Raises(kind) THEN [error |-> kind, disk |-> d]
    ELSE IF kind = "exhausted" THEN [error |-> "none", disk |-> d]
    ELSE LET d2 == WriteChunk(d, i, Slice(data, bytes_written,
                                          bytes_written + BytesPerCluster))
         IN  IF bytes_written + BytesPerCluster >= Len(data) \/ kind = "eoc"
             THEN [error |-> "none", disk |-> d2]
             ELSE WriteWalk(ft, f, At(f, i), data,
                            bytes_written + BytesPerCluster, d2)

\* Lines 470-474: the payload padded with zeroes to whole clusters
ErasePad(data) ==
    LET n == calc_num_clusters(Len(data))
        new_sz == (IF n < 1 THEN 1 ELSE n) * BytesPerCluster
    IN  data \o [k \in 1 .. (new_sz - Len(data)) |-> 0]

\* Faulty variant of Splice: the last cell of the old chain is not rewritten.
Splice_Dropped(f, last_cluster, new_chain) == f

\* Line 468: self.fat[last_cluster] = new_chain
Splice(f, last_cluster, new_chain) == Put(f, last_cluster, new_chain)

\* The whole call: its outcome and the state it leaves.
write_data_to_cluster(ft, f, fff, d, data, cluster, extend_cluster, erase) ==
    LET walk == CapacityWalk(ft, f, cluster, Len(data), 0, -1)
        keep == [fat |-> f, first_free_cluster |-> fff, disk |-> d]
    IN
    IF walk.error # "none" THEN [outcome |-> walk.error] @@ keep
    ELSE IF Len(data) > walk.cluster_sz /\ ~extend_cluster
    THEN [outcome |-> "ENOSPC"] @@ keep
    ELSE
      LET grow  == Len(data) > walk.cluster_sz
          alloc == allocate_bytes(ft, f, fff, d,
                                  Len(data) - walk.cluster_sz, erase)
      IN
      IF grow /\ alloc.outcome # "ok" THEN [outcome |-> "ENOSPC"] @@ keep
      ELSE IF grow /\ walk.last_cluster = -1
      THEN \* self.fat[None] = new_chain raises after the allocation
           [outcome |-> "TypeError", fat |-> alloc.fat,
            first_free_cluster |-> alloc.first_free_cluster,
            disk |-> alloc.disk]
      ELSE
        LET f2   == IF grow THEN Splice(alloc.fat, walk.last_cluster,
                                        alloc.result[1])
                    ELSE f
            fff2 == IF grow THEN alloc.first_free_cluster ELSE fff
            d2   == IF grow THEN alloc.disk ELSE d
            payload == IF erase THEN ErasePad(data) ELSE data
            wr   == WriteWalk(ft, f2, cluster, payload, 0, d2)
        IN  [outcome |-> IF wr.error = "none" THEN "ok" ELSE wr.error,
             fat |-> f2, first_free_cluster |-> fff2, disk |-> wr.disk]

----------------------------------------------------------------------------
(* FAT images a volume can be opened from *)

\* Cells 0 and 1 as mkfs writes them for media type 0xF8 (PyFat.py:1213-1222)
ReservedCells(ft) ==
    CASE ft = FAT_TYPE_FAT12 -> <<4088, FAT12_SPECIAL_EOC>>
      [] ft = FAT_TYPE_FAT16 -> <<65528, 65535>>
      [] OTHER               -> <<268435448, 268435455>>

\* The values a cell of an image may hold: FREE, the reserved value 1, every
\* index of the table, the index just at and just past its end, the largest
\* data value, 0xFF0, BAD and both ends of the EOC range.
CellValues(ft) ==
    {FREE_CLUSTER(ft), 1} \cup (2 .. (NumCells + 1)) \cup
    {MAX_DATA_CLUSTER(ft), FAT12_SPECIAL_EOC, BAD_CLUSTER(ft),
     END_OF_CLUSTER_MIN(ft), END_OF_CLUSTER_MAX(ft)}

\* Every table of NumCells cells over CellValues: _parse_fat (PyFat.py:289-373)
\* decodes whatever the container holds.
AnyImages(ft) ==
    {ReservedCells(ft) \o t : t \in [1 .. (NumCells - 2) -> CellValues(ft)]}

\* The FAT12 table [media|0xFF0, SPECIAL_EOC, 3, 4, 5, SPECIAL_EOC, 0, 0]
ExampleImage == <<4088, FAT12_SPECIAL_EOC, 3, 4, 5, FAT12_SPECIAL_EOC, 0, 0>>

Images(ft) ==
    AnyImages(ft) \cup (IF ft = FAT_TYPE_FAT12 THEN {ExampleImage} ELSE {})

\* The data region before any write: every byte of every cluster is 0xE5.
OldBytes(n) == [k \in 1 .. n |-> 229]
OldDisk(f) == [c \in DataCells(f) |-> OldBytes(BytesPerCluster)]

\* No volume on a container: the calls of the specifications below are calls
\* on the in-memory FAT and the data region alone.
NoRun == [op |-> "none", todo |-> <<>>, done |-> <<>>, scope |-> "none"]
NoHist == [opens |-> 0, calls |-> 0, open_outcome |-> "none",
           clean_close |-> FALSE, after_clean_close |-> FALSE,
           dirty_seen |-> FALSE, dir |-> <<>>]
NoVolume ==
    /\ img = <<>>
    /\ geom = [fat_type |-> 0, fat_size |-> 0]
    /\ bpb_header = [BS_Reserved1 |-> 0]
    /\ initialized = FALSE
    /\ is_read_only = TRUE
    /\ fp = "none"
    /\ warnings = {}
    /\ run = NoRun
    /\ hist = NoHist
    /\ lock = 0
    /\ pos = 0
    /\ threads = <<>>

NoGen == [first |-> 0, i |-> 0, pc |-> "idle", out |-> <<>>, at |-> 0,
          pass |-> 0]
NoCall == [op |-> "none"]

----------------------------------------------------------------------------
(* A get_cluster_chain generator consumed one item at a time *)

InitChain ==
    /\ fat_type \in FatTypes
    /\ fat \in Images(fat_type)
    /\ first_free_cluster = 0
    /\ disk = OldDisk(fat)
    /\ \E first \in 2 .. (FatLen(fat) + 1) :
          gen = [first |-> first, i |-> first, pc |-> "run", out |-> <<>>,
                 at |-> first, pass |-> 0]
    /\ last = NoCall
    /\ chains = {}
    /\ NoVolume

\* One pass of the while loop, PyFat.py:807-833. gen.i is the local i, gen.at
\* the index the pass looked at, gen.pc how the generator stands ("run": it
\* will be resumed; "done": it returned after an end-of-chain cell;
\* "exhausted": the while condition was false; "bad", "free", "invalid": it
\* raised PyFATException; "IndexError": self.fat[i] raised). gen.out holds the
\* indices yielded, up to the first FatLen + 1 of them, gen.pass the parity of
\* the number of passes made.
GetClusterChainStep ==
    /\ gen.pc = "run"
    /\ LET kind == ChainStepKind(fat_type, fat, gen.i) IN
       gen' = [first |-> gen.first,
               i     |-> IF kind = "data" THEN At(fat, gen.i) ELSE gen.i,
               pc    |-> IF kind = "data" THEN "run"
                         ELSE IF kind = "eoc" THEN "done" ELSE kind,
               out   |-> IF Yields(kind) /\ Len(gen.out) <= FatLen(fat)
                         THEN Append(gen.out, gen.i) ELSE gen.out,
               at    |-> gen.i,
               pass  |-> 1 - gen.pass]
    /\ UNCHANGED <<fat_type, fat, first_free_cluster, disk, last, chains>>
    /\ UNCHANGED volvars

NextChain == GetClusterChainStep

SpecChain == InitChain /\ [][NextChain]_vars

\* The consumer of the generator (a for loop) keeps asking for the next item.
FairSpecChain == SpecChain /\ WF_vars(GetClusterChainStep)

----------------------------------------------------------------------------
(* Calls on an opened, writable volume *)

\* A table as allocation leaves it: every data cell is FREE, BAD, or lies on a
\* chain that ends in an end-of-chain cell, and no cell is pointed to twice.
WellFormedImage(ft, f) ==
    /\ \A c \in DataCells(f) :
          \/ At(f, c) \in {FREE_CLUSTER(ft), BAD_CLUSTER(ft)}
          \/ get_cluster_chain(ft, f, c).end = "eoc"
    /\ \A c, e \in DataCells(f) :
          (c # e /\ At(f, c) = At(f, e)) => At(f, c) \notin DataCells(f)

WellFormedImages(ft) == {f \in AnyImages(ft) : WellFormedImage(ft, f)}

\* The first cells of the chains of a table
Heads(ft, f) ==
    {c \in DataCells(f) :
        /\ At(f, c) \notin {FREE_CLUSTER(ft), BAD_CLUSTER(ft)}
        /\ \A e \in DataCells(f) : At(f, e) # c}

\* Arguments of the calls
Sizes == 0 .. ((NumCells - 2) * BytesPerCluster + 1)
DataOf(n) == [k \in 1 .. n |-> k]              \* the bytes 1, 2, ..., n

\* A behaviour is a sequence of calls of which one, the last, is observed: its
\* arguments, its outcome and the FAT before it are recorded in `last`, and
\* the claims about a call's result are stated on that record. Calls that are
\* not observed leave last = NoCall; they write the byte the data region
\* already holds and do not erase, so that the data region is the same in
\* every state a call is observed from. After an observed allocate_bytes the
\* only further call is the free_cluster_chain of the chain it returned.
Idle == last = NoCall
Payload(n, observe) == IF observe THEN DataOf(n) ELSE OldBytes(n)

\* The state set_fp leaves (PyFat.py:100-125, 210-245): the decoded FAT,
\* first_free_cluster = 0.
Init ==
    /\ fat_type \in FatTypes
    /\ fat \in WellFormedImages(fat_type)
    /\ first_free_cluster = 0
    /\ disk = OldDisk(fat)
    /\ gen = NoGen
    /\ last = NoCall
    /\ chains = Heads(fat_type, fat)
    /\ NoVolume

\* allocate_bytes(size, erase)
Allocate ==
    /\ Idle
    /\ \E size \in Sizes, erase \in BOOLEAN, observe \in BOOLEAN :
         /\ observe \/ ~erase
         /\ \E r \in {allocate_bytes(fat_type, fat, first_free_cluster, disk,
                                     size, erase)} :
              /\ fat' = r.fat
              /\ first_free_cluster' = r.first_free_cluster
              /\ disk' = r.disk
              /\ chains' = IF r.outcome = "ok" /\ r.result # <<>>
                           THEN chains \cup {r.result[1]} ELSE chains
              /\ last' = IF observe
                         THEN [op |-> "alloc", size |-> size, erase |-> erase,
                               outcome |-> r.outcome, result |-> r.result,
                               fat0 |-> fat, fff0 |-> first_free_cluster]
                         ELSE NoCall
    /\ UNCHANGED <<fat_type, gen>>
    /\ UNCHANGED volvars

\* The observed call is an allocate_bytes(s), s > 0, that returned `cluster`
\* as the head of the new chain
JustAllocated(cluster) ==
    /\ last.op = "alloc"
    /\ last.outcome = "ok"
    /\ last.size > 0
    /\ last.result[1] = cluster

\* What a call of free_cluster_chain(cluster) does to the state
FreeCall(cluster, observe) ==
    \E r \in {free_cluster_chain(fat_type, fat, first_free_cluster, cluster)} :
       /\ fat' = r.fat
       /\ first_free_cluster' = r.first_free_cluster
       /\ chains' = IF r.outcome = "ok" THEN chains \ {cluster} ELSE chains
       /\ last' = IF observe
                  THEN [op |-> "free", cluster |-> cluster,
                        outcome |-> r.outcome, freed |-> r.freed,
                        fat0 |-> fat, fff0 |-> first_free_cluster,
                        after_alloc |-> ~Idle,
                        alloc_fat0 |-> IF Idle THEN <<>> ELSE last.fat0]
                  ELSE NoCall
       /\ UNCHANGED <<fat_type, disk, gen>>
       /\ UNCHANGED volvars

\* free_cluster_chain(head) on the head of an allocated chain
Free ==
    \E cluster \in chains, observe \in BOOLEAN :
       /\ Idle \/ (observe /\ JustAllocated(cluster))
       /\ FreeCall(cluster, observe)

\* write_data_to_cluster(data, head, extend_cluster, erase) on the head of an
\* allocated chain
Write ==
    /\ Idle
    /\ \E cluster \in chains, n \in Sizes, extend_cluster \in BOOLEAN,
          erase \in BOOLEAN, observe \in BOOLEAN :
         /\ observe \/ ~erase
         /\ \E r \in {write_data_to_cluster(fat_type, fat, first_free_cluster,
                                            disk, Payload(n, observe), cluster,
                                            extend_cluster, erase)} :
              /\ fat' = r.fat
              /\ first_free_cluster' = r.first_free_cluster
              /\ disk' = r.disk
              /\ last' = IF observe
                         THEN [op |-> "write", cluster |-> cluster,
                               data |-> DataOf(n),
                               extend_cluster |-> extend_cluster,
                               erase |-> erase, outcome |-> r.outcome,
                               fat0 |-> fat, fff0 |-> first_free_cluster]
                         ELSE NoCall
    /\ UNCHANGED <<fat_type, gen, chains>>
    /\ UNCHANGED volvars

Next == Allocate \/ Free \/ Write

Spec == Init /\ [][Next]_vars

----------------------------------------------------------------------------
(* One free_cluster_chain call on a volume opened from any image *)

InitAny ==
    /\ fat_type \in FatTypes
    /\ fat \in AnyImages(fat_type)
    /\ first_free_cluster = 0
    /\ disk = OldDisk(fat)
    /\ gen = NoGen
    /\ last = NoCall
    /\ chains = {}
    /\ NoVolume

\* free_cluster_chain(cluster) for any cluster number, first call after open
FreeAny ==
    /\ Idle
    /\ \E cluster \in 2 .. (FatLen(fat) + 1) : FreeCall(cluster, TRUE)

SpecAny == InitAny /\ [][FreeAny]_vars

----------------------------------------------------------------------------
(* The container: a seekable file of bytes *)

Zeroes(n) == [k \in 1 .. n |-> 0]
MinOf(a, b) == IF a <= b THEN a ELSE b
MaxOf(a, b) == IF a >= b THEN a ELSE b

\* self.__seek(address); self.__fp.read(n): short at the end of the file
ReadAt(b, address, n) ==
    IF address >= Len(b) THEN <<>>
    ELSE SubSeq(b, address + 1, MinOf(address + n, Len(b)))

\* self.__seek(address); self.__fp.write(data): a write past the end extends
\* the file, the gap reading as zeroes
WriteAt(b, address, data) ==
    [a \in 1 .. MaxOf(Len(b), address + Len(data)) |->
        IF address < a /\ a <= address + Len(data) THEN data[a - address]
        ELSE IF a <= Len(b) THEN b[a]
        ELSE 0]

\* The regions of a volume, in bytes (parse_header, PyFat.py:935-948):
\* BPB_RsvdSecCnt sectors (1 on FAT12/16; on FAT32 the boot sector and, at
\* BPB_BkBootSec, its backup), BPB_NumFATs FAT copies, the FAT12/16 root
\* directory, the data region.
RsvdBytes(ft) == IF ft = FAT_TYPE_FAT32 THEN 2 * BootSectorSize ELSE BootSectorSize
backup_offset == BootSectorSize
first_fat_bytes(ft) == RsvdBytes(ft)
root_dir_addr(ft, g) == RsvdBytes(ft) + NumFATs * g.fat_size
root_dir_sz(ft) == IF ft = FAT_TYPE_FAT32 THEN 0 ELSE RootEntCnt
first_data_byte(ft, g) == root_dir_addr(ft, g) + root_dir_sz(ft)

\* Faulty variant of get_data_cluster_address: the FAT and root directory
\* sectors are left out of first_data_sector.
get_data_cluster_address_FromFatStart(ft, g, cluster) ==
    (cluster - 2) * BytesPerCluster + first_fat_bytes(ft)

\* ((cluster - 2) * SecPerClus + first_data_sector) * BytsPerSec
get_data_cluster_address(ft, g, cluster) ==
    (cluster - 2) * BytesPerCluster + first_data_byte(ft, g)

\* The signature 0x55 0xAA and where _write_bpb_header puts it (510)
Signature == <<85, 170>>
signature_addr == BootSectorSize - 2

\* bytes(self.bpb_header) and BootSectorHeader.parse_header, as far as the
\* field BS_Reserved1 goes: the header is the first byte of the boot sector.
BpbBytes(h) == <<h.BS_Reserved1>>
ParseBpb(boot_sector) == [BS_Reserved1 |-> boot_sector[1]]

----------------------------------------------------------------------------
(* The FAT on disk: __bytes__, PyFat.py:375-401, _parse_fat, PyFat.py:289-373 *)

\* The FAT12 loop of __bytes__ from entry i on, b the bytes so far: an even
\* entry is packed as a 16-bit word, an odd one shares the byte before it.
RECURSIVE EncodeFat12(_, _, _)
EncodeFat12(f, i, b) ==
    IF i >= FatLen(f) THEN b
    ELSE LET e == At(f, i) IN
         IF i % 2 = 0
         THEN EncodeFat12(f, i + 1, b \o <<e % 256, e \div 256>>)
         ELSE LET nibble == b[Len(b)] IN
              EncodeFat12(f, i + 1,
                          SubSeq(b, 1, Len(b) - 1) \o
                          <<((e % 16) * 16) + nibble, e \div 16>>)

\* struct.pack of every entry as "<H" (FAT16) or "<L" (FAT32)
RECURSIVE EncodeFatWords(_, _, _, _)
EncodeFatWords(ft, f, i, b) ==
    IF i >= FatLen(f) THEN b
    ELSE LET e == At(f, i) IN
         IF ft = FAT_TYPE_FAT16
         THEN EncodeFatWords(ft, f, i + 1, b \o <<e % 256, e \div 256>>)
         ELSE EncodeFatWords(ft, f, i + 1,
                             b \o <<e % 256, (e \div 256) % 256,
                                    (e \div 65536) % 256, e \div 16777216>>)

__bytes__(ft, f) ==
    IF ft = FAT_TYPE_FAT12 THEN EncodeFat12(f, 0, <<>>)
    ELSE EncodeFatWords(ft, f, 0, <<>>)

\* The FAT12 branch of the while loop of _parse_fat at entry `cluster`, acc
\* the entries parsed so far. The result is the list self.fat and the number
\* of entries of it that are still None.
RECURSIVE ParseFat12(_, _, _, _)
ParseFat12(b, fat_size, cluster, acc) ==
    LET total_entries == (2 * fat_size) \div 3
        lo == (3 * cluster) \div 2                  \* int(curr)
        hi == (3 * (cluster + 1) + 1) \div 2        \* math.ceil(offset)
        fat_nibble == ReadAt(b, lo, hi - lo) \o <<0, 0>>   \* ljust(2, b"\0")
        word == fat_nibble[1] + 256 * fat_nibble[2]
        e == IF cluster % 2 = 0 THEN word % 4096 ELSE word \div 16
    IN  IF ~(3 * cluster < 2 * fat_size)
        THEN [fat |-> acc, nones |-> total_entries - Len(acc)]
        ELSE IF cluster >= total_entries             \* IndexError: break
        THEN [fat |-> acc, nones |-> 0]
        ELSE IF hi = fat_size - 1                    \* del self.fat[-1]; break
        THEN IF cluster + 1 = total_entries
             THEN [fat |-> acc, nones |-> 0]
             ELSE [fat |-> Append(acc, e),
                   nones |-> total_entries - (cluster + 1) - 1]
        ELSE ParseFat12(b, fat_size, cluster + 1, Append(acc, e))

\* The FAT16 and FAT32 branches: one word per entry, FAT32 keeps 28 bits
ParseFatWords(ft, b, fat_size) ==
    IF ft = FAT_TYPE_FAT16
    THEN [k \in 1 .. (fat_size \div 2) |-> b[2 * k - 1] + 256 * b[2 * k]]
    ELSE [k \in 1 .. (fat_size \div 4) |->
             b[4 * k - 3] + 256 * b[4 * k - 2] + 65536 * b[4 * k - 1] +
             16777216 * (b[4 * k] % 16)]

\* The copies of the FAT the image holds
FatCopy(ft, g, b, i) == ReadAt(b, first_fat_bytes(ft) + i * g.fat_size, g.fat_size)
FatCopies(ft, g, b) == {FatCopy(ft, g, b, i) : i \in 0 .. (NumFATs - 1)}

\* The whole of _parse_fat: the list it leaves in self.fat, whether it warned
\* that the copies differ, and the error it raised
_parse_fat(ft, g, b) ==
    LET fat0 == FatCopy(ft, g, b, 0)
        differ == Cardinality(FatCopies(ft, g, b)) > 1
    IN  IF Len(fat0) # g.fat_size
        THEN [fat |-> <<>>, differ |-> differ, error |-> "Invalid length of FAT"]
        ELSE IF ft = FAT_TYPE_FAT12
        THEN LET p == ParseFat12(fat0, g.fat_size, 0, <<>>) IN
             [fat |-> p.fat, differ |-> differ,
              error |-> IF p.nones > 0 THEN "AssertionError" ELSE "none"]
        ELSE [fat |-> ParseFatWords(ft, fat0, g.fat_size), differ |-> differ,
              error |-> "none"]

\* A container write: self.__seek(address); self.__fp.write(data). `what`
\* names the write for the record of a call in progress.
RECURSIVE ApplyWrites(_, _)
ApplyWrites(b, ws) ==
    IF ws = <<>> THEN b
    ELSE ApplyWrites(WriteAt(b, Head(ws).address, Head(ws).data), Tail(ws))

\* flush_fat, PyFat.py:486-500: the encoded FAT written at the start of every
\* copy, copy 0 first
FlushWrites(ft, g, f) ==
    [i \in 1 .. NumFATs |->
        [address |-> first_fat_bytes(ft) + (i - 1) * g.fat_size,
         data |-> __bytes__(ft, f), what |-> "fat"]]

flush_fat(ft, g, f, b) == ApplyWrites(b, FlushWrites(ft, g, f))

----------------------------------------------------------------------------
(* The dirty indicators, PyFat.py:88-98, 153-208, 897-912 *)

FAT16_CLEAN_SHUTDOWN_BIT_MASK == 32768         \* 0x8000
FAT32_CLEAN_SHUTDOWN_BIT_MASK == 134217728     \* 0x8000000
FAT_DIRTY_BIT_MASK == 1

\* __get_clean_shutdown_bitmask: the attribute exists for FAT16 and FAT32
HasCleanShutdownBit(ft) == ft \in {FAT_TYPE_FAT16, FAT_TYPE_FAT32}
CleanShutdownBitmask(ft) ==
    IF ft = FAT_TYPE_FAT16 THEN FAT16_CLEAN_SHUTDOWN_BIT_MASK
    ELSE FAT32_CLEAN_SHUTDOWN_BIT_MASK

\* v & m, v | m and v & ~m for a mask m of one bit
BitAnd(v, m) == IF (v \div m) % 2 = 1 THEN m ELSE 0
BitOr(v, m) == v - BitAnd(v, m) + m
BitClear(v, m) == v - BitAnd(v, m)

_is_dirty(ft, f, h) ==
    LET dos_dirty ==
            IF HasCleanShutdownBit(ft)
            THEN BitAnd(At(f, 1), CleanShutdownBitmask(ft)) # CleanShutdownBitmask(ft)
            ELSE FALSE
        nt_dirty == BitAnd(h.BS_Reserved1, FAT_DIRTY_BIT_MASK) = FAT_DIRTY_BIT_MASK
    IN  dos_dirty \/ nt_dirty

\* _write_bpb_header: the header at 0 and the signature at 510; on FAT32 the
\* same at the backup boot sector
_write_bpb_header(ft, h) ==
    <<[address |-> 0, data |-> BpbBytes(h), what |-> "bpb"],
      [address |-> signature_addr, data |-> Signature, what |-> "signature"]>> \o
    (IF ft = FAT_TYPE_FAT32
     THEN <<[address |-> backup_offset, data |-> BpbBytes(h), what |-> "backup_bpb"],
            [address |-> signature_addr + backup_offset, data |-> Signature,
             what |-> "backup_signature"]>>
     ELSE <<>>)

\* Faulty variant of _mark_dirty: BS_Reserved1 is left as it is.
_mark_dirty_NoNtBit(ft, g, f, h) ==
    LET f2 == IF HasCleanShutdownBit(ft)
              THEN Put(f, 1, BitClear(At(f, 1), CleanShutdownBitmask(ft))) ELSE f
    IN  [fat |-> f2, bpb_header |-> h,
         writes |-> (IF HasCleanShutdownBit(ft) THEN FlushWrites(ft, g, f2)
                     ELSE <<>>) \o _write_bpb_header(ft, h)]

\* _mark_dirty: self.fat and self.bpb_header as it leaves them and the
\* container writes it makes, in order
_mark_dirty(ft, g, f, h) ==
    LET f2 == IF HasCleanShutdownBit(ft)
              THEN Put(f, 1, BitClear(At(f, 1), CleanShutdownBitmask(ft))) ELSE f
        h2 == [h EXCEPT !.BS_Reserved1 = BitOr(h.BS_Reserved1, FAT_DIRTY_BIT_MASK)]
    IN  [fat |-> f2, bpb_header |-> h2,
         writes |-> (IF HasCleanShutdownBit(ft) THEN FlushWrites(ft, g, f2)
                     ELSE <<>>) \o _write_bpb_header(ft, h2)]

\* Faulty variant of _mark_clean: the clean-shutdown bit of FAT[1] is not set.
_mark_clean_NoDosBit(ft, g, f, h) ==
    LET h2 == [h EXCEPT !.BS_Reserved1 = BitClear(h.BS_Reserved1, FAT_DIRTY_BIT_MASK)]
    IN  [fat |-> f, bpb_header |-> h2,
         writes |-> (IF HasCleanShutdownBit(ft) THEN FlushWrites(ft, g, f)
                     ELSE <<>>) \o _write_bpb_header(ft, h2)]

\* _mark_clean, likewise
_mark_clean(ft, g, f, h) ==
    LET f2 == IF HasCleanShutdownBit(ft)
              THEN Put(f, 1, BitOr(At(f, 1), CleanShutdownBitmask(ft))) ELSE f
        h2 == [h EXCEPT !.BS_Reserved1 = BitClear(h.BS_Reserved1, FAT_DIRTY_BIT_MASK)]
    IN  [fat |-> f2, bpb_header |-> h2,
         writes |-> (IF HasCleanShutdownBit(ft) THEN FlushWrites(ft, g, f2)
                     ELSE <<>>) \o _write_bpb_header(ft, h2)]

----------------------------------------------------------------------------
(* The data region seen through get_data_cluster_address *)

\* read_cluster_contents of every cluster the FAT names
ClusterView(ft, g, f, b) ==
    [c \in DataCells(f) |->
        ReadAt(b, get_data_cluster_address(ft, g, c), BytesPerCluster)]

\* The container after the cluster writes that turned the view d0 into d1,
\* from cluster c on: _write_data_to_address at the address of each cluster
RECURSIVE StoreClusters(_, _, _, _, _, _)
StoreClusters(ft, g, b, d0, d1, c) ==
    IF c \notin DOMAIN d1 THEN b
    ELSE StoreClusters(ft, g,
                       IF d1[c] = d0[c] THEN b
                       ELSE WriteAt(b, get_data_cluster_address(ft, g, c), d1[c]),
                       d0, d1, c + 1)

----------------------------------------------------------------------------
(* The decorators, PyFat.py:30-40 and pyfatfs/__init__.py *)

\* Faulty variant of _readonly_check: the wrapped function always runs.
_readonly_check_Off(read_only) == "run"

\* _readonly_check: the wrapped function runs only when is_read_only is False
_readonly_check(read_only) == IF read_only THEN "ReadOnly" ELSE "run"

\* _init_check: the wrapped function runs only when initialized is True
_init_check(inited) == IF inited THEN "run" ELSE "NotInitialized"

\* @_init_check @_readonly_check def ...: the outer check is made first
Checked(inited, read_only) ==
    IF _init_check(inited) # "run" THEN _init_check(inited)
    ELSE _readonly_check(read_only)

----------------------------------------------------------------------------
(* Directories, PyFat.py:573-784 *)

\* A directory record is scaled to one byte: its first byte, which is 0x00
\* in the record that ends a directory, 0xE5 in a free record and the first
\* character of the name otherwise.
LAST_DIR_ENTRY_MARK == 0
FREE_DIR_ENTRY_MARK == 229

\* bytes(d) of the n entries of a directory, 'A' first
DirOf(n) == [k \in 1 .. n |-> 64 + k]

\* The for loop of parse_dir_entries_in_address over the records of one
\* address range: a free record is skipped, the last-entry record ends the
\* loop over this range.
RECURSIVE parse_dir_entries_in_address(_, _)
parse_dir_entries_in_address(recs, acc) ==
    IF recs = <<>> THEN acc
    ELSE IF Head(recs) = LAST_DIR_ENTRY_MARK THEN acc
    ELSE IF Head(recs) = FREE_DIR_ENTRY_MARK
    THEN parse_dir_entries_in_address(Tail(recs), acc)
    ELSE parse_dir_entries_in_address(Tail(recs), Append(acc, Head(recs)))

\* The for loop of parse_dir_entries_in_cluster_chain over the cells yielded
RECURSIVE ScanClusters(_, _, _, _, _)
ScanClusters(ft, g, b, cells, acc) ==
    IF cells = <<>> THEN acc
    ELSE ScanClusters(ft, g, b, Tail(cells),
             acc \o parse_dir_entries_in_address(
                        ReadAt(b, get_data_cluster_address(ft, g, Head(cells)),
                               BytesPerCluster), <<>>))

\* The entries it returns, or the error get_cluster_chain raised
parse_dir_entries_in_cluster_chain(ft, g, f, b, cluster) ==
    LET chain == get_cluster_chain(ft, f, cluster) IN
    IF chain.end \in {"eoc", "exhausted"}
    THEN [error |-> "none", entries |-> ScanClusters(ft, g, b, chain.cells, <<>>)]
    ELSE [error |-> IF chain.end = "loop" THEN "hang" ELSE chain.end,
          entries |-> <<>>]

\* BPB_RootClus of the FAT32 images (mkfs allocates the first cluster)
BPB_RootClus == 2

\* parse_root_dir: _fat12_parse_root_dir scans the fixed root region,
\* _fat32_parse_root_dir the chain of BPB_RootClus
parse_root_dir(ft, g, f, b) ==
    IF ft \in {FAT_TYPE_FAT12, FAT_TYPE_FAT16}
    THEN [error |-> "none",
          entries |-> parse_dir_entries_in_address(
                          ReadAt(b, root_dir_addr(ft, g), root_dir_sz(ft)), <<>>)]
    ELSE parse_dir_entries_in_cluster_chain(ft, g, f, b, BPB_RootClus)

\* Faulty variant of update_directory_entry: the check of line 612 is
\* missing, so a list longer than the root region is written as it is.
update_directory_entry_NoLimit(ft, g, f, fff, b, is_root_dir, cluster, n) ==
    IF ~is_root_dir \/ ft = FAT_TYPE_FAT32
    THEN LET d == ClusterView(ft, g, f, b)
             w == write_data_to_cluster(ft, f, fff, d, DirOf(n), cluster,
                                        TRUE, TRUE)
         IN  [outcome |-> w.outcome, fat |-> w.fat,
              first_free_cluster |-> w.first_free_cluster,
              img |-> StoreClusters(ft, g, b, d, w.disk, 2)]
    ELSE [outcome |-> "ok", fat |-> f, first_free_cluster |-> fff,
          img |-> WriteAt(b, root_dir_addr(ft, g),
                          DirOf(n) \o Zeroes(root_dir_sz(ft) - n))]

\* update_directory_entry of a directory of n entries: the FAT32 root and
\* every other directory go through write_data_to_cluster with
\* extend_cluster and erase; the FAT12/16 root is written to its region.
update_directory_entry(ft, g, f, fff, b, is_root_dir, cluster, n) ==
    IF ~is_root_dir \/ ft = FAT_TYPE_FAT32
    THEN LET d == ClusterView(ft, g, f, b)
             w == write_data_to_cluster(ft, f, fff, d, DirOf(n), cluster,
                                        TRUE, TRUE)
         IN  [outcome |-> w.outcome, fat |-> w.fat,
              first_free_cluster |-> w.first_free_cluster,
              img |-> StoreClusters(ft, g, b, d, w.disk, 2)]
    ELSE IF n > root_dir_sz(ft)
    THEN [outcome |-> "ENOSPC", fat |-> f, first_free_cluster |-> fff, img |-> b]
    ELSE [outcome |-> "ok", fat |-> f, first_free_cluster |-> fff,
          img |-> WriteAt(b, root_dir_addr(ft, g),
                          DirOf(n) \o Zeroes(root_dir_sz(ft) - n))]

----------------------------------------------------------------------------
(* set_fp, PyFat.py:210-245, with parse_header, PyFat.py:914-959 *)

FAT_TYPE_UNKNOWN == 0

\* What an open leaves: the outcome ("ok" or the error raised), the fields of
\* the instance and the container. parse_header raises on a bad signature
\* before it sets initialized; _parse_fat, _mark_dirty and parse_root_dir run
\* after it.
set_fp(g, b, writable) ==
    LET ft == g.fat_type
        h == ParseBpb(ReadAt(b, 0, BootSectorSize))
        signature == ReadAt(b, signature_addr, 2)
        p == _parse_fat(ft, g, b)
        dirty == _is_dirty(ft, p.fat, h)
        m == IF writable THEN _mark_dirty(ft, g, p.fat, h)
             ELSE [fat |-> p.fat, bpb_header |-> h, writes |-> <<>>]
        b2 == ApplyWrites(b, m.writes)
        root == parse_root_dir(ft, g, m.fat, b2)
        differ == IF p.differ THEN {"fats_differ"} ELSE {}
    IN  IF signature # Signature
        THEN [outcome |-> "BadSignature", fat_type |-> FAT_TYPE_UNKNOWN,
              fat |-> <<>>, bpb_header |-> h, initialized |-> FALSE,
              warnings |-> {}, img |-> b]
        ELSE IF p.error # "none"
        THEN [outcome |-> p.error, fat_type |-> ft, fat |-> p.fat,
              bpb_header |-> h, initialized |-> TRUE, warnings |-> differ,
              img |-> b]
        ELSE [outcome |-> IF root.error = "none" THEN "ok" ELSE root.error,
              fat_type |-> ft, fat |-> m.fat, bpb_header |-> m.bpb_header,
              initialized |-> TRUE,
              warnings |-> differ \cup (IF dirty THEN {"dirty"} ELSE {}),
              img |-> b2]

----------------------------------------------------------------------------
(* The images a volume is opened from *)

\* FATSz * BytsPerSec of the images, an even number of bytes: FAT12 tables
\* whose encoding fills the copy and tables whose encoding is shorter than
\* it; a FAT16 table of NumCells cells; a FAT32 table of NumCells - 1 cells.
FatSizes(ft) ==
    CASE ft = FAT_TYPE_FAT12 ->
             {s \in (MaxFatSize - 3) .. MaxFatSize : s % 2 = 0}
      [] ft = FAT_TYPE_FAT16 -> {2 * NumCells}
      [] OTHER               -> {4 * (NumCells - 1)}

Geometries ==
    UNION {{[fat_type |-> ft, fat_size |-> s] : s \in FatSizes(ft)} :
              ft \in FatTypes}

\* The number of cells _parse_fat finds in a copy of g.fat_size bytes
EntriesOf(g) ==
    FatLen(_parse_fat(g.fat_type, g,
                      Zeroes(first_fat_bytes(g.fat_type) +
                             NumFATs * g.fat_size)).fat)

\* How an image differs from a newly made, cleanly closed volume. A populated
\* volume holds a directory of BytesPerCluster + 1 entries in the chain of
\* clusters 2 and 3 (on FAT32 the root directory).
ImageKinds(ft) ==
    {"clean", "nt_dirty", "bad_signature", "differ_mid", "differ_end",
     "populated"} \cup
    (IF HasCleanShutdownBit(ft) THEN {"dos_dirty", "both_dirty"} ELSE {}) \cup
    (IF ft = FAT_TYPE_FAT32 THEN {"corrupt_root"} ELSE {})

\* The image of an empty volume (mkfs, PyFat.py:1024-1259): the boot sector
\* (and its backup on FAT32), the FAT copies, the empty root directory (a
\* region on FAT12/16, cluster BPB_RootClus on FAT32) and data clusters that
\* were never written.
MakeImage(g, kind) ==
    LET ft == g.fat_type
        n == EntriesOf(g)
        cells0 == [i \in 1 .. n |->
                      IF i <= 2 THEN ReservedCells(ft)[i]
                      ELSE IF kind = "populated" /\ i = 3 THEN 3
                      ELSE IF kind = "populated" /\ i = 4
                      THEN END_OF_CLUSTER_MAX(ft)
                      ELSE IF kind = "cyclic" /\ i = 3 THEN 3
                      ELSE IF kind = "cyclic" /\ i = 4 THEN 2
                      ELSE IF ft = FAT_TYPE_FAT32 /\ i = BPB_RootClus + 1 /\
                              kind # "corrupt_root"
                      THEN END_OF_CLUSTER_MAX(ft)
                      ELSE FREE_CLUSTER(ft)]
        cells == IF kind \in {"dos_dirty", "both_dirty"}
                 THEN Put(cells0, 1, BitClear(At(cells0, 1),
                                              CleanShutdownBitmask(ft)))
                 ELSE cells0
        enc == __bytes__(ft, cells)
        copy0 == enc \o Zeroes(g.fat_size - Len(enc))
        at == IF kind = "differ_mid" THEN 5
              ELSE IF kind = "differ_end" THEN g.fat_size ELSE 0
        copy1 == [k \in 1 .. g.fat_size |->
                     IF k = at THEN (copy0[k] + 1) % 256 ELSE copy0[k]]
        boot == [k \in 1 .. BootSectorSize |->
                    IF k = 1
                    THEN (IF kind \in {"nt_dirty", "both_dirty"} THEN 1 ELSE 0)
                    ELSE IF k > signature_addr /\ kind # "bad_signature"
                    THEN Signature[k - signature_addr]
                    ELSE 0]
        fats == [k \in 1 .. (NumFATs * g.fat_size) |->
                    IF k <= g.fat_size THEN copy0[k]
                    ELSE copy1[((k - 1) % g.fat_size) + 1]]
        dir == DirOf(BytesPerCluster + 1) \o Zeroes(BytesPerCluster - 1)
        data == [k \in 1 .. ((n - 2) * BytesPerCluster) |->
                    IF kind = "populated" /\ k <= Len(dir) THEN dir[k]
                    ELSE IF ft = FAT_TYPE_FAT32 /\ k <= BytesPerCluster THEN 0
                    ELSE 229]
    IN  boot \o (IF ft = FAT_TYPE_FAT32 THEN boot ELSE <<>>) \o fats \o
        Zeroes(root_dir_sz(ft)) \o data

----------------------------------------------------------------------------
(* A volume on a container: open, calls, close *)

\* The number of opens and of calls of a behaviour
MaxOpens == 2
MaxCalls == 2

\* Arguments of the calls: sizes of no, one and two clusters; directories of
\* no entry, of one, of as many as a cluster or the root region holds and of
\* one more
VolSizes == {0, 1, BytesPerCluster + 1}
DirSizes ==
    {0, 1, MaxOf(BytesPerCluster, RootEntCnt),
     MaxOf(BytesPerCluster, RootEntCnt) + 1}

\* A new PyFat instance (__init__, PyFat.py:100-125) and an image
InitVol ==
    /\ \E g \in Geometries :
          /\ geom = g
          /\ \E kind \in ImageKinds(g.fat_type) : img = MakeImage(g, kind)
    /\ fat_type = FAT_TYPE_UNKNOWN
    /\ fat = <<>>
    /\ first_free_cluster = 0
    /\ disk = <<>>
    /\ gen = NoGen
    /\ last = NoCall
    /\ chains = {}
    /\ bpb_header = [BS_Reserved1 |-> 0]
    /\ initialized = FALSE
    /\ is_read_only = TRUE
    /\ fp = "none"
    /\ warnings = {}
    /\ run = NoRun
    /\ hist = NoHist
    /\ lock = 0
    /\ pos = 0
    /\ threads = <<>>

\* PyFat().open(filename, read_only) (PyFat.py:247-263): a new instance opens
\* the container. scope is "body" when open_fs makes the call.
OpenCall(read_only, scope) ==
    \E r \in {set_fp(geom, img, ~read_only)} :
       /\ fat_type' = r.fat_type
       /\ fat' = r.fat
       /\ first_free_cluster' = 0
       /\ bpb_header' = r.bpb_header
       /\ initialized' = r.initialized
       /\ is_read_only' = read_only
       /\ fp' = "open"
       /\ warnings' = r.warnings
       /\ img' = r.img
       /\ chains' = IF r.outcome = "ok" THEN Heads(r.fat_type, r.fat) ELSE {}
       /\ last' = [op |-> "open", outcome |-> r.outcome]
       /\ run' = [NoRun EXCEPT !.scope = IF r.outcome = "ok" THEN scope
                                         ELSE "none"]
       /\ hist' = [opens |-> hist.opens + 1, calls |-> hist.calls,
                   open_outcome |-> r.outcome, clean_close |-> FALSE,
                   after_clean_close |-> hist.clean_close,
                   dirty_seen |-> hist.dirty_seen \/ "dirty" \in r.warnings,
                   dir |-> hist.dir]
       /\ UNCHANGED <<disk, gen, geom>>
       /\ UNCHANGED thrvars

CanOpen == fp # "open" /\ run.op = "none" /\ hist.opens < MaxOpens

Open == CanOpen /\ \E read_only \in BOOLEAN : OpenCall(read_only, "none")

\* open_fs up to its yield (PyFat.py:1019-1021)
OpenFs == CanOpen /\ OpenCall(FALSE, "body")

\* A call is made when no close is in progress
CanCall == run.op = "none" /\ hist.calls < MaxCalls

Rejections == {"NotInitialized", "ReadOnly"}

\* What a call leaves when a decorator rejects it
Rejected(why) ==
    [outcome |-> why, fat |-> fat, first_free_cluster |-> first_free_cluster,
     img |-> img]

\* The state after a call with result r; heads are the chains allocated
Call(rec, r, heads, dir) ==
    /\ fat' = r.fat
    /\ first_free_cluster' = r.first_free_cluster
    /\ img' = r.img
    /\ chains' = heads
    /\ last' = rec @@ [outcome |-> r.outcome]
    /\ hist' = [hist EXCEPT !.calls = @ + 1, !.dir = dir]
    /\ UNCHANGED <<fat_type, disk, gen, geom, bpb_header, initialized,
                   is_read_only, fp, warnings, run>>
    /\ UNCHANGED thrvars

\* allocate_bytes(size, erase)
VolAllocate ==
    /\ CanCall
    /\ \E size \in VolSizes, erase \in BOOLEAN :
         LET chk == Checked(initialized, is_read_only) IN
         IF chk # "run"
         THEN Call([op |-> "alloc"], Rejected(chk), chains, hist.dir)
         ELSE \E d \in {ClusterView(fat_type, geom, fat, img)} :
              \E r \in {allocate_bytes(fat_type, fat, first_free_cluster, d,
                                       size, erase)} :
                 Call([op |-> "alloc"],
                      [outcome |-> r.outcome, fat |-> r.fat,
                       first_free_cluster |-> r.first_free_cluster,
                       img |-> StoreClusters(fat_type, geom, img, d, r.disk, 2)],
                      IF r.outcome = "ok" /\ r.result # <<>>
                      THEN chains \cup {r.result[1]} ELSE chains,
                      hist.dir)

\* free_cluster_chain(cluster)
VolFree ==
    /\ CanCall
    /\ \E cluster \in chains \cup {2} :
         LET chk == Checked(initialized, is_read_only) IN
         IF chk # "run"
         THEN Call([op |-> "free"], Rejected(chk), chains, hist.dir)
         ELSE \E r \in {free_cluster_chain(fat_type, fat, first_free_cluster,
                                           cluster)} :
                 Call([op |-> "free"],
                      [outcome |-> r.outcome, fat |-> r.fat,
                       first_free_cluster |-> r.first_free_cluster,
                       img |-> img],
                      IF r.outcome = "ok" THEN chains \ {cluster} ELSE chains,
                      <<>>)

\* write_data_to_cluster(data, cluster, extend_cluster, erase)
VolWrite ==
    /\ CanCall
    /\ \E cluster \in chains \cup {2}, n \in VolSizes \ {0},
          extend_cluster \in BOOLEAN, erase \in BOOLEAN :
         LET chk == Checked(initialized, is_read_only) IN
         IF chk # "run"
         THEN Call([op |-> "write"], Rejected(chk), chains, hist.dir)
         ELSE \E d \in {ClusterView(fat_type, geom, fat, img)} :
              \E r \in {write_data_to_cluster(fat_type, fat,
                                              first_free_cluster, d,
                                              OldBytes(n), cluster,
                                              extend_cluster, erase)} :
                 Call([op |-> "write"],
                      [outcome |-> r.outcome, fat |-> r.fat,
                       first_free_cluster |-> r.first_free_cluster,
                       img |-> StoreClusters(fat_type, geom, img, d, r.disk, 2)],
                      chains, <<>>)

\* flush_fat()
VolFlushFat ==
    /\ CanCall
    /\ LET chk == Checked(initialized, is_read_only) IN
       IF chk # "run"
       THEN Call([op |-> "flush"], Rejected(chk), chains, hist.dir)
       ELSE Call([op |-> "flush"],
                 [outcome |-> "ok", fat |-> fat,
                  first_free_cluster |-> first_free_cluster,
                  img |-> flush_fat(fat_type, geom, fat, img)],
                 chains, hist.dir)

\* The directories of a volume: the root and one at every allocated chain
Dirs ==
    {[root |-> TRUE,
      cluster |-> IF geom.fat_type = FAT_TYPE_FAT32 THEN BPB_RootClus ELSE 0]}
    \cup {[root |-> FALSE, cluster |-> c] :
             c \in chains \ (IF geom.fat_type = FAT_TYPE_FAT32
                             THEN {BPB_RootClus} ELSE {})}

\* update_directory_entry(dir_entry) for a directory of n entries
VolUpdateDirectoryEntry ==
    /\ CanCall
    /\ \E dir \in Dirs, n \in DirSizes :
         LET chk == Checked(initialized, is_read_only)
             rec == [op |-> "update", root |-> dir.root, n |-> n]
         IN
         IF chk # "run" THEN Call(rec, Rejected(chk), chains, hist.dir)
         ELSE \E r \in {update_directory_entry(fat_type, geom, fat,
                                               first_free_cluster, img,
                                               dir.root, dir.cluster, n)} :
                 Call(rec, r, chains,
                      IF r.outcome # "ok" THEN <<>>
                      ELSE IF dir.root /\ fat_type # FAT_TYPE_FAT32
                      THEN hist.dir
                      ELSE [cluster |-> dir.cluster, n |-> n])

\* _write_data_to_address(data, address) (PyFat.py:403-417): one byte written
\* at the start of the data region
VolWriteDataToAddress ==
    /\ CanCall
    /\ LET chk == Checked(initialized, is_read_only) IN
       IF chk # "run"
       THEN Call([op |-> "write_address"], Rejected(chk), chains, hist.dir)
       ELSE Call([op |-> "write_address"],
                 [outcome |-> "ok", fat |-> fat,
                  first_free_cluster |-> first_free_cluster,
                  img |-> WriteAt(img, first_data_byte(fat_type, geom),
                                  <<FREE_DIR_ENTRY_MARK>>)],
                 chains, <<>>)

\* read_cluster_contents(cluster) (PyFat.py:140-151): a read changes nothing
VolReadClusterContents ==
    /\ CanCall
    /\ LET chk == _init_check(initialized) IN
       Call([op |-> "read"],
            [outcome |-> IF chk # "run" THEN chk ELSE "ok", fat |-> fat,
             first_free_cluster |-> first_free_cluster, img |-> img],
            chains, hist.dir)

\* close() (PyFat.py:835-842) up to its first container write: the init
\* check, and on a writable volume _mark_clean, whose writes are then made
\* one at a time. scope is "exit" when open_fs makes the call.
CloseCall(scope) ==
    IF _init_check(initialized) # "run"
    THEN /\ hist.calls < MaxCalls
         /\ last' = [op |-> "close", outcome |-> _init_check(initialized)]
         /\ hist' = [hist EXCEPT !.calls = @ + 1]
         /\ UNCHANGED <<fat_type, fat, first_free_cluster, disk, gen, chains,
                        img, geom, bpb_header, initialized, is_read_only, fp,
                        warnings, run>>
         /\ UNCHANGED thrvars
    ELSE \E m \in {IF is_read_only
                   THEN [fat |-> fat, bpb_header |-> bpb_header,
                         writes |-> <<>>]
                   ELSE _mark_clean(fat_type, geom, fat, bpb_header)} :
            /\ fat' = m.fat
            /\ bpb_header' = m.bpb_header
            /\ run' = [op |-> "close", todo |-> m.writes, done |-> <<>>,
                       scope |-> scope]
            /\ last' = [op |-> "close", outcome |-> "running"]
            /\ UNCHANGED <<fat_type, first_free_cluster, disk, gen, chains,
                           img, geom, initialized, is_read_only, fp, warnings,
                           hist>>
            /\ UNCHANGED thrvars

Close == run.op = "none" /\ run.scope # "body" /\ CloseCall("none")

\* The next container write of the close in progress
CloseWrite ==
    /\ run.op = "close"
    /\ run.todo # <<>>
    /\ img' = WriteAt(img, Head(run.todo).address, Head(run.todo).data)
    /\ run' = [run EXCEPT !.todo = Tail(@),
                          !.done = Append(@, Head(run.todo).what)]
    /\ UNCHANGED <<fat_type, fat, first_free_cluster, disk, gen, last, chains,
                   geom, bpb_header, initialized, is_read_only, fp, warnings,
                   hist>>
    /\ UNCHANGED thrvars

\* self.__fp.close(); self.initialized = False
CloseEnd ==
    /\ run.op = "close"
    /\ run.todo = <<>>
    /\ fp' = "closed"
    /\ initialized' = FALSE
    /\ run' = [NoRun EXCEPT !.scope = IF run.scope = "exit" THEN "left"
                                      ELSE "none"]
    /\ last' = [op |-> "close", outcome |-> "ok"]
    /\ hist' = [hist EXCEPT !.clean_close =
                               ~is_read_only /\ hist.open_outcome = "ok"]
    /\ UNCHANGED <<fat_type, fat, first_free_cluster, disk, gen, chains, img,
                   geom, bpb_header, is_read_only, warnings>>
    /\ UNCHANGED thrvars

\* The body of a `with open_fs(...)` returns: the generator is resumed after
\* its yield and calls pf.close() (PyFat.py:1022)
BodyReturns == run.scope = "body" /\ run.op = "none" /\ CloseCall("exit")

\* The body raises: the exception is thrown into the generator at its yield,
\* which is in no try statement, and control leaves open_fs
BodyRaises ==
    /\ run.scope = "body"
    /\ run.op = "none"
    /\ run' = [run EXCEPT !.scope = "left"]
    /\ last' = [op |-> "raise", outcome |-> "raised"]
    /\ UNCHANGED <<fat_type, fat, first_free_cluster, disk, gen, chains, img,
                   geom, bpb_header, initialized, is_read_only, fp, warnings,
                   hist>>
    /\ UNCHANGED thrvars

NextVol ==
    \/ Open
    \/ OpenFs
    \/ VolAllocate
    \/ VolFree
    \/ VolWrite
    \/ VolFlushFat
    \/ VolUpdateDirectoryEntry
    \/ VolWriteDataToAddress
    \/ VolReadClusterContents
    \/ Close
    \/ CloseWrite
    \/ CloseEnd
    \/ BodyReturns
    \/ BodyRaises

SpecVol == InitVol /\ [][NextVol]_vars

----------------------------------------------------------------------------
(* Threads calling an opened, writable volume *)

\* The threads of a behaviour
Threads == {1, 2}

\* A thread that is in no call. op is the call, pc where the thread stands in
\* it, i, free_clusters and k the locals of allocate_bytes, todo the seeks and
\* reads or writes still to make under the lock it holds or waits for, want
\* the address of its last seek, at the position its last read or write was
\* made at, got what a read returned and stored what the container held at
\* the address sought when the read was made.
NoThread ==
    [op |-> "none", pc |-> "idle", size |-> 0, erase |-> FALSE, i |-> 0,
     free_clusters |-> <<>>, k |-> 0, todo |-> <<>>, want |-> -1, at |-> -1,
     got |-> <<>>, stored |-> <<>>, outcome |-> "none",
     cluster |-> 0, tmp_fat |-> <<>>, freed |-> <<>>]

\* Faulty variant of CanAcquire: the lock is taken whoever holds it.
CanAcquire_Always(l) == TRUE

\* with self.__lock: the thread goes on when the lock is free
CanAcquire(l) == l = 0

\* The geometries of the images, and a FAT16 volume with room for a new chain
\* beside the directory of a populated image
ThreadGeometries ==
    Geometries \cup
       {[fat_type |-> FAT_TYPE_FAT16, fat_size |-> 2 * (NumCells + 1)]}

\* What the images hold: nothing, a directory in the chain 2 -> 3, or (on a
\* damaged FAT16 volume, which open does not inspect) the cycle 2 -> 3 -> 2
ThreadImageKinds == {"clean", "populated", "cyclic"}

\* A volume opened writable from an empty or a populated image; `last` keeps
\* the FAT and first_free_cluster the threads start from
InitThreads ==
    /\ \E g \in ThreadGeometries, kind \in ThreadImageKinds :
          \E r \in {set_fp(g, MakeImage(g, kind), TRUE)} :
             /\ kind = "cyclic" => g.fat_type = FAT_TYPE_FAT16
             /\ geom = g
             /\ img = r.img
             /\ fat_type = r.fat_type
             /\ fat = r.fat
             /\ bpb_header = r.bpb_header
             /\ initialized = r.initialized
             /\ warnings = r.warnings
             /\ last = [op |-> "threads", fat0 |-> r.fat, fff0 |-> 0,
                        img0 |-> r.img]
    /\ first_free_cluster = 0
    /\ disk = <<>>
    /\ gen = NoGen
    /\ chains = {}
    /\ is_read_only = FALSE
    /\ fp = "open"
    /\ run = NoRun
    /\ hist = NoHist
    /\ lock = 0
    /\ pos = 0
    /\ threads = [t \in Threads |-> NoThread]

\* What no step of a thread changes
ThreadFrame ==
    UNCHANGED <<fat_type, disk, gen, last, chains, geom, bpb_header,
                initialized, is_read_only, fp, warnings, run, hist>>

\* Thread t calls allocate_bytes(size, erase): range(self.first_free_cluster,
\* len(self.fat)) is evaluated (PyFat.py:530)
StartAllocate(t) ==
    /\ threads[t].pc = "idle"
    /\ \E size \in {1, BytesPerCluster + 1}, erase \in BOOLEAN :
          threads' = [threads EXCEPT ![t] =
                         [NoThread EXCEPT !.op = "alloc", !.pc = "scan",
                                          !.size = size, !.erase = erase,
                                          !.i = first_free_cluster,
                                          !.outcome = "running"]]
    /\ UNCHANGED <<fat, first_free_cluster, img, lock, pos>>
    /\ ThreadFrame

\* One pass of the for loop of PyFat.py:530-555
ScanStep(t) ==
    LET th == threads[t]
        i == th.i
        next == [th EXCEPT !.i = i + 1]
    IN
    /\ th.pc = "scan"
    /\ threads' = [threads EXCEPT ![t] =
          IF i >= FatLen(fat)
          THEN [th EXCEPT !.pc = "done", !.outcome = "ENOSPC"]
          ELSE IF MIN_DATA_CLUSTER(fat_type) > i \/ i > MAX_DATA_CLUSTER(fat_type)
          THEN next
          ELSE IF calc_num_clusters(th.size) = Len(th.free_clusters)
          THEN [th EXCEPT !.pc = "set_first_free"]
          ELSE IF At(fat, i) = FREE_CLUSTER(fat_type) /\
                  i # BAD_CLUSTER(fat_type) /\
                  ~(fat_type = FAT_TYPE_FAT12 /\ i = FAT12_SPECIAL_EOC)
          THEN [next EXCEPT !.free_clusters = Append(@, i)]
          ELSE next]
    /\ UNCHANGED <<fat, first_free_cluster, img, lock, pos>>
    /\ ThreadFrame

\* self.first_free_cluster = i (PyFat.py:556)
SetFirstFree(t) ==
    LET th == threads[t] IN
    /\ th.pc = "set_first_free"
    /\ first_free_cluster' = th.i
    /\ threads' = [threads EXCEPT ![t] =
          IF th.free_clusters = <<>>
          THEN [th EXCEPT !.pc = "done", !.outcome = "ok"]
          ELSE [th EXCEPT !.pc = "link", !.k = 1]]
    /\ UNCHANGED <<fat, img, lock, pos>>
    /\ ThreadFrame

\* One pass of the for loop of PyFat.py:559-569 up to the erase: the cell is
\* linked to the next one collected, the last to END_OF_CLUSTER_MAX
LinkStep(t) ==
    LET th == threads[t]
        fc == th.free_clusters
        k == th.k
    IN
    /\ th.pc = "link"
    /\ fat' = Put(fat, fc[k], IF k < Len(fc) THEN fc[k + 1]
                              ELSE END_OF_CLUSTER_MAX(fat_type))
    /\ threads' = [threads EXCEPT ![t] =
          IF th.erase
          THEN [th EXCEPT !.pc = "acquire",
                          !.todo = <<[kind |-> "write",
                                      address |-> get_data_cluster_address(
                                                      fat_type, geom, fc[k]),
                                      data |-> Zeroes(BytesPerCluster)]>>]
          ELSE IF k = Len(fc)
          THEN [th EXCEPT !.pc = "done", !.outcome = "ok"]
          ELSE [th EXCEPT !.k = k + 1]]
    /\ UNCHANGED <<first_free_cluster, img, lock, pos>>
    /\ ThreadFrame

\* Thread t calls read_cluster_contents(cluster) (PyFat.py:140-151)
StartRead(t) ==
    /\ threads[t].pc = "idle"
    /\ \E cluster \in DataCells(fat) :
          threads' = [threads EXCEPT ![t] =
             [NoThread EXCEPT !.op = "read", !.pc = "acquire",
                              !.outcome = "running",
                              !.todo = <<[kind |-> "read",
                                          address |-> get_data_cluster_address(
                                                          fat_type, geom, cluster),
                                          n |-> BytesPerCluster]>>]]
    /\ UNCHANGED <<fat, first_free_cluster, img, lock, pos>>
    /\ ThreadFrame

\* Thread t calls _write_data_to_address(data, address) (PyFat.py:403-417),
\* as write_data_to_cluster and update_directory_entry do, with bytes of its
\* own at the address of a cluster
StartWrite(t) ==
    /\ threads[t].pc = "idle"
    /\ \E cluster \in DataCells(fat) :
          threads' = [threads EXCEPT ![t] =
             [NoThread EXCEPT !.op = "write_address", !.pc = "acquire",
                              !.outcome = "running",
                              !.todo = <<[kind |-> "write",
                                          address |-> get_data_cluster_address(
                                                          fat_type, geom, cluster),
                                          data |-> [b \in 1 .. BytesPerCluster |-> t]]>>]]
    /\ UNCHANGED <<fat, first_free_cluster, img, lock, pos>>
    /\ ThreadFrame

\* Thread t calls flush_fat() (PyFat.py:486-500)
StartFlush(t) ==
    /\ threads[t].pc = "idle"
    /\ threads' = [threads EXCEPT ![t] =
          [NoThread EXCEPT !.op = "flush", !.pc = "acquire",
                           !.outcome = "running"]]
    /\ UNCHANGED <<fat, first_free_cluster, img, lock, pos>>
    /\ ThreadFrame

\* with self.__lock: entered. flush_fat encodes the FAT once it holds the lock
Acquire(t) ==
    LET th == threads[t] IN
    /\ th.pc = "acquire"
    /\ CanAcquire(lock)
    /\ lock' = t
    /\ threads' = [threads EXCEPT ![t] =
          [th EXCEPT !.pc = "seek",
                     !.todo = IF th.op = "flush"
                              THEN [j \in 1 .. NumFATs |->
                                       [kind |-> "write",
                                        address |-> FlushWrites(fat_type, geom, fat)[j].address,
                                        data |-> FlushWrites(fat_type, geom, fat)[j].data]]
                              ELSE th.todo]]
    /\ UNCHANGED <<fat, first_free_cluster, img, pos>>
    /\ ThreadFrame

\* self.__seek(address)
Seek(t) ==
    LET th == threads[t] IN
    /\ th.pc = "seek"
    /\ pos' = Head(th.todo).address
    /\ threads' = [threads EXCEPT ![t] =
          [th EXCEPT !.pc = "io", !.want = Head(th.todo).address]]
    /\ UNCHANGED <<fat, first_free_cluster, img, lock>>
    /\ ThreadFrame

\* self.__fp.read(n) or self.__fp.write(data), at the position of the file
ReadOrWrite(t) ==
    LET th == threads[t]
        rq == Head(th.todo)
        after == IF Len(th.todo) = 1 THEN "release" ELSE "seek"
    IN
    /\ th.pc = "io"
    /\ IF rq.kind = "read"
       THEN /\ img' = img
            /\ pos' = pos + Len(ReadAt(img, pos, rq.n))
            /\ threads' = [threads EXCEPT ![t] =
                  [th EXCEPT !.pc = after, !.todo = Tail(@), !.at = pos,
                             !.got = ReadAt(img, pos, rq.n),
                             !.stored = ReadAt(img, rq.address, rq.n)]]
       ELSE /\ img' = WriteAt(img, pos, rq.data)
            /\ pos' = pos + Len(rq.data)
            /\ threads' = [threads EXCEPT ![t] =
                  [th EXCEPT !.pc = after, !.todo = Tail(@), !.at = pos]]
    /\ UNCHANGED <<fat, first_free_cluster, lock>>
    /\ ThreadFrame

\* The read or write raises OSError: the with statement releases the lock and
\* the error leaves the call
ReadOrWriteFails(t) ==
    LET th == threads[t] IN
    /\ th.pc = "io"
    /\ lock' = IF lock = t THEN 0 ELSE lock
    /\ threads' = [threads EXCEPT ![t] =
          [th EXCEPT !.pc = "done", !.outcome = "OSError"]]
    /\ UNCHANGED <<fat, first_free_cluster, img, pos>>
    /\ ThreadFrame

\* The with statement is left. allocate_bytes goes on with its for loop, the
\* other calls return.
Release(t) ==
    LET th == threads[t] IN
    /\ th.pc = "release"
    /\ lock' = IF lock = t THEN 0 ELSE lock
    /\ threads' = [threads EXCEPT ![t] =
          IF th.op = "alloc" /\ th.k < Len(th.free_clusters)
          THEN [th EXCEPT !.pc = "link", !.k = th.k + 1]
          ELSE [th EXCEPT !.pc = "done", !.outcome = "ok"]]
    /\ UNCHANGED <<fat, first_free_cluster, img, pos>>
    /\ ThreadFrame

\* Thread t calls free_cluster_chain(cluster) (PyFat.py:419-432)
StartFree(t) ==
    /\ threads[t].pc = "idle"
    /\ \E cluster \in {2, 3} :
          threads' = [threads EXCEPT ![t] =
             [NoThread EXCEPT !.op = "free", !.pc = "free_acquire",
                              !.outcome = "running", !.cluster = cluster]]
    /\ UNCHANGED <<fat, first_free_cluster, img, lock, pos>>
    /\ ThreadFrame

\* with self.__lock: entered, tmp_fat = self.fat.copy() (PyFat.py:426-427)
FreeCopy(t) ==
    LET th == threads[t] IN
    /\ th.pc = "free_acquire"
    /\ CanAcquire(lock)
    /\ lock' = t
    /\ threads' = [threads EXCEPT ![t] =
          [th EXCEPT !.pc = "free_loop", !.tmp_fat = fat]]
    /\ UNCHANGED <<fat, first_free_cluster, img, pos>>
    /\ ThreadFrame

\* The for loop of PyFat.py:428-431: the generator reads self.fat, the cells
\* it yields are set free in tmp_fat and lower first_free_cluster. When the
\* generator raises, the with statement releases the lock and the error
\* leaves the call; on a cyclic chain the loop never ends.
FreeLoop(t) ==
    LET th == threads[t] IN
    /\ th.pc = "free_loop"
    /\ \E chain \in {get_cluster_chain(fat_type, fat, th.cluster)} :
          /\ first_free_cluster' = SeqMin(chain.cells, first_free_cluster)
          /\ lock' = IF chain.end \in {"eoc", "exhausted", "loop"} THEN lock
                     ELSE IF lock = t THEN 0 ELSE lock
          /\ threads' = [threads EXCEPT ![t] =
                IF chain.end \in {"eoc", "exhausted"}
                THEN [th EXCEPT !.pc = "free_assign", !.freed = chain.cells,
                                !.tmp_fat = FreeCells(fat_type, th.tmp_fat,
                                                      chain.cells)]
                ELSE IF chain.end = "loop"
                THEN [th EXCEPT !.pc = "hang", !.outcome = "hang"]
                ELSE [th EXCEPT !.pc = "done", !.outcome = chain.end]]
    /\ UNCHANGED <<fat, img, pos>>
    /\ ThreadFrame

\* self.fat = tmp_fat (PyFat.py:432), and the with statement is left
FreeAssign(t) ==
    LET th == threads[t] IN
    /\ th.pc = "free_assign"
    /\ fat' = th.tmp_fat
    /\ lock' = IF lock = t THEN 0 ELSE lock
    /\ threads' = [threads EXCEPT ![t] =
          [th EXCEPT !.pc = "done", !.outcome = "ok"]]
    /\ UNCHANGED <<first_free_cluster, img, pos>>
    /\ ThreadFrame

NextThreads ==
    \E t \in Threads :
       \/ StartAllocate(t)
       \/ ScanStep(t)
       \/ SetFirstFree(t)
       \/ LinkStep(t)
       \/ StartRead(t)
       \/ StartWrite(t)
       \/ StartFlush(t)
       \/ Acquire(t)
       \/ Seek(t)
       \/ ReadOrWrite(t)
       \/ ReadOrWriteFails(t)
       \/ Release(t)
       \/ StartFree(t)
       \/ FreeCopy(t)
       \/ FreeLoop(t)
       \/ FreeAssign(t)

SpecThreads == InitThreads /\ [][NextThreads]_vars

\* The threads are scheduled fairly and container I/O returns: a step a thread
\* can take is taken, and a thread that finds the lock free again and again
\* gets it
FairSpecThreads ==
    /\ SpecThreads
    /\ \A t \in Threads :
          /\ WF_vars(ScanStep(t) \/ SetFirstFree(t) \/ LinkStep(t) \/ Seek(t)
                        \/ ReadOrWrite(t) \/ ReadOrWriteFails(t)
                        \/ Release(t) \/ FreeLoop(t) \/ FreeAssign(t))
          /\ SF_vars(Acquire(t) \/ FreeCopy(t))

----------------------------------------------------------------------------
(* The FAT decoded from a container and encoded again *)

\* The bytes a FAT copy of n bytes may hold: all zero but for at most two
\* bytes, each with its low nibble, its high nibble or all its bits set
FatCopyBytes(n) ==
    {[k \in 1 .. n |-> IF k = p THEN v ELSE IF k = q THEN w ELSE 0] :
        p \in 1 .. n, q \in 1 .. n, v \in {0, 15, 240, 255}, w \in {0, 255}}

\* A volume whose header has been parsed (parse_header, PyFat.py:914-959):
\* the FAT type and size are known, the FAT copies hold any bytes
InitFat ==
    /\ \E g \in Geometries :
          /\ geom = g
          /\ fat_type = g.fat_type
          /\ \E copy \in FatCopyBytes(g.fat_size) :
                img = Zeroes(first_fat_bytes(g.fat_type)) \o copy \o copy
    /\ fat = <<>>
    /\ first_free_cluster = 0
    /\ disk = <<>>
    /\ gen = NoGen
    /\ last = NoCall
    /\ chains = {}
    /\ bpb_header = [BS_Reserved1 |-> 0]
    /\ initialized = TRUE
    /\ is_read_only = TRUE
    /\ fp = "open"
    /\ warnings = {}
    /\ run = NoRun
    /\ hist = NoHist
    /\ lock = 0
    /\ pos = 0
    /\ threads = <<>>

\* self._parse_fat()
ParseFat ==
    /\ last = NoCall
    /\ \E p \in {_parse_fat(fat_type, geom, img)} :
          /\ fat' = p.fat
          /\ last' = [op |-> "_parse_fat", outcome |-> p.error]
    /\ UNCHANGED <<fat_type, first_free_cluster, disk, gen, chains>>
    /\ UNCHANGED volvars

\* bytes(self), with no mutation since the FAT was parsed
EncodeFat ==
    /\ last.op = "_parse_fat"
    /\ last.outcome = "none"
    /\ last' = [op |-> "__bytes__", outcome |-> "ok",
                bytes |-> __bytes__(fat_type, fat)]
    /\ UNCHANGED <<fat_type, fat, first_free_cluster, disk, gen, chains>>
    /\ UNCHANGED volvars

NextFat == ParseFat \/ EncodeFat

SpecFat == InitFat /\ [][NextFat]_vars

----------------------------------------------------------------------------
(* The boot sector at open: parse_header, PyFat.py:914-959,
   __verify_bpb_header, PyFat.py:961-1012, __determine_fat_type,
   PyFat.py:851-895. The boot sector is held by the values of its fields,
   at the scale of the code. *)

\* Faulty variant of __verify_bpb_header: any media type passes.
__verify_bpb_header_AnyMedia(h) ==
    LET bytes_per_cluster == h.BPB_BytsPerSec * h.BPB_SecPerClus
    IN  CASE h.BS_jmpBoot0 = 235 /\ h.BS_jmpBoot2 # 144 -> "jmpBoot_end"
          [] h.BS_jmpBoot0 \notin {235, 233} -> "jmpBoot_start"
          [] h.BPB_BytsPerSec \notin {512, 1024, 2048, 4096} -> "BytsPerSec"
          [] h.BPB_SecPerClus \notin {1, 2, 4, 8, 16, 32, 64, 128} -> "SecPerClus"
          [] h.BPB_RsvdSecCnt = 0 -> "RsvdSecCnt"
          [] h.BPB_NumFATs < 1 -> "NumFATs"
          [] h.BPB_RootEntCnt # 0 /\
             (h.BPB_RootEntCnt * 32) % h.BPB_BytsPerSec # 0 -> "RootEntCnt"
          [] h.BPB_TotSec16 = 0 /\ h.BPB_TotSec32 = 0 -> "TotSec"
          [] OTHER -> IF bytes_per_cluster > 32768 THEN "warn_32K" ELSE "none"

\* __verify_bpb_header: the first check that fails, in the order of the code;
\* "warn_32K" when all pass with the warning about the cluster size
__verify_bpb_header(h) ==
    LET bytes_per_cluster == h.BPB_BytsPerSec * h.BPB_SecPerClus
    IN  CASE h.BS_jmpBoot0 = 235 /\ h.BS_jmpBoot2 # 144 -> "jmpBoot_end"
          [] h.BS_jmpBoot0 \notin {235, 233} -> "jmpBoot_start"
          [] h.BPB_BytsPerSec \notin {512, 1024, 2048, 4096} -> "BytsPerSec"
          [] h.BPB_SecPerClus \notin {1, 2, 4, 8, 16, 32, 64, 128} -> "SecPerClus"
          [] h.BPB_RsvdSecCnt = 0 -> "RsvdSecCnt"
          [] h.BPB_Media \notin {240} \cup (248 .. 255) -> "Media"
          [] h.BPB_NumFATs < 1 -> "NumFATs"
          [] h.BPB_RootEntCnt # 0 /\
             (h.BPB_RootEntCnt * 32) % h.BPB_BytsPerSec # 0 -> "RootEntCnt"
          [] h.BPB_TotSec16 = 0 /\ h.BPB_TotSec32 = 0 -> "TotSec"
          [] OTHER -> IF bytes_per_cluster > 32768 THEN "warn_32K" ELSE "none"

_get_fat_size_count(h) ==
    IF h.BPB_FATSz16 # 0 THEN h.BPB_FATSz16 ELSE h.BPB_FATSz32

\* __determine_fat_type with self.root_dir_sectors as the instance holds it
\* when the method runs
__determine_fat_type(h, root_dir_sectors) ==
    LET total_sectors == IF h.BPB_TotSec16 # 0 THEN h.BPB_TotSec16
                         ELSE h.BPB_TotSec32
        fat_sz == h.BPB_NumFATs * _get_fat_size_count(h)
        data_sec == total_sectors - (h.BPB_RsvdSecCnt + fat_sz + root_dir_sectors)
        count_of_clusters ==
            IF data_sec >= 0 THEN data_sec \div h.BPB_SecPerClus
            ELSE 0 - ((h.BPB_SecPerClus - 1 - data_sec) \div h.BPB_SecPerClus)
        msft_fat_type ==
            IF count_of_clusters < 4085 THEN FAT_TYPE_FAT12
            ELSE IF count_of_clusters < 65525 THEN FAT_TYPE_FAT16
            ELSE FAT_TYPE_FAT32
        linux_fat_type ==
            IF h.BPB_FATSz16 = 0
            THEN (IF h.BPB_FATSz32 # 0 THEN FAT_TYPE_FAT32 ELSE msft_fat_type)
            ELSE IF count_of_clusters >= 4085 THEN FAT_TYPE_FAT16
            ELSE FAT_TYPE_FAT12
    IN  [fat_type |-> linux_fat_type, warn |-> msft_fat_type # linux_fat_type]

\* parse_header on a new instance, whose root_dir_sectors is 0 (__init__,
\* PyFat.py:116) until line 942 sets it, after the FAT type was determined
parse_header(boot_sector) ==
    LET v == __verify_bpb_header(boot_sector)
        t == __determine_fat_type(boot_sector, 0)
        w == (IF v = "warn_32K" THEN {"32K"} ELSE {}) \cup
             (IF t.warn THEN {"fat_type"} ELSE {})
    IN  IF v \notin {"none", "warn_32K"}
        THEN [error |-> v, fat_type |-> FAT_TYPE_UNKNOWN, initialized |-> FALSE,
              warnings |-> {}]
        ELSE IF boot_sector.Signature # 43605
        THEN [error |-> "Signature", fat_type |-> t.fat_type,
              initialized |-> FALSE, warnings |-> w]
        ELSE [error |-> "none", fat_type |-> t.fat_type, initialized |-> TRUE,
              warnings |-> w]

\* The boot sectors a container may hold: each field with the values that
\* pass the checks and values that do not; sector totals whose cluster count
\* is below 4085, at least 4085 only when the root directory sectors are
\* left out, and above 65525
BootSectors ==
    [BS_jmpBoot0 : {235, 233, 0}, BS_jmpBoot2 : {144, 0},
     BPB_BytsPerSec : {512, 4096, 1000}, BPB_SecPerClus : {1, 128, 3},
     BPB_RsvdSecCnt : {0, 1}, BPB_NumFATs : {0, 2},
     BPB_RootEntCnt : {0, 512, 100}, BPB_TotSec16 : {0, 4120},
     BPB_TotSec32 : {0, 70000}, BPB_Media : {240, 255, 241},
     BPB_FATSz16 : {0, 12}, BPB_FATSz32 : {0, 100},
     BS_Reserved1 : {0}, Signature : {43605, 0}]

\* A new PyFat instance (__init__, PyFat.py:100-125) and a container whose
\* first sector is any of the boot sectors
InitHeader ==
    /\ img \in BootSectors
    /\ geom = [fat_type |-> FAT_TYPE_UNKNOWN, fat_size |-> 0]
    /\ fat_type = FAT_TYPE_UNKNOWN
    /\ fat = <<>>
    /\ first_free_cluster = 0
    /\ disk = <<>>
    /\ gen = NoGen
    /\ last = NoCall
    /\ chains = {}
    /\ bpb_header = [BS_Reserved1 |-> 0]
    /\ initialized = FALSE
    /\ is_read_only = TRUE
    /\ fp = "none"
    /\ warnings = {}
    /\ run = NoRun
    /\ hist = NoHist
    /\ lock = 0
    /\ pos = 0
    /\ threads = <<>>

\* PyFat().open(filename, read_only) (PyFat.py:247-263) as far as the boot
\* sector goes: parse_header, then, of the rest of set_fp (PyFat.py:231-245),
\* the header _mark_dirty writes on a writable container. The steps between
\* them may raise.
OpenBootSector ==
    /\ fp = "none"
    /\ \E read_only \in BOOLEAN, rest \in {"none", "_parse_fat"} :
       \E r \in {parse_header(img)} :
          LET marked == r.error = "none" /\ rest = "none" /\ ~read_only
              h == IF marked
                   THEN [img EXCEPT !.BS_Reserved1 =
                                       BitOr(@, FAT_DIRTY_BIT_MASK)]
                   ELSE img
          IN  /\ is_read_only' = read_only
              /\ fp' = "open"
              /\ bpb_header' = h
              /\ fat_type' = r.fat_type
              /\ initialized' = r.initialized
              /\ warnings' = r.warnings
              /\ img' = h
              /\ last' = [op |-> "open",
                          outcome |-> IF r.error # "none" THEN r.error
                                      ELSE IF rest # "none" THEN rest ELSE "ok",
                          boot_sector |-> img]
    /\ UNCHANGED <<geom, fat, first_free_cluster, disk, gen, chains, run, hist>>
    /\ UNCHANGED thrvars

SpecHeader == InitHeader /\ [][OpenBootSector]_vars

----------------------------------------------------------------------------
(* mkfs, PyFat.py:1024-1259, on a new or a used container, then close and
   open. The header is computed at the scale of the code; the container is
   written at the scale of the images. *)

\* The cells mkfs gives self.fat, [0] * BPB_BytsPerSec (line 1213): more
\* than a small FAT12 copy holds, fewer than a FAT16 or FAT32 copy holds
MkfsCells == NumCells + 2

\* What the one-byte record of the volume label stands for
ATTR_VOLUME_ID == 8

\* Lines 1083-1108: sectors per cluster by the number of sectors, 0 when no
\* row of the table fits
sec_per_clus(ft, num_sec) ==
    CASE ft = FAT_TYPE_FAT32 ->
             (IF num_sec <= 66600 THEN 0 ELSE IF num_sec <= 532480 THEN 1
              ELSE IF num_sec <= 16777216 THEN 8
              ELSE IF num_sec <= 33554432 THEN 16
              ELSE IF num_sec <= 67108864 THEN 32 ELSE 0)
      [] ft = FAT_TYPE_FAT16 ->
             (IF num_sec <= 8400 THEN 0 ELSE IF num_sec <= 32680 THEN 2
              ELSE IF num_sec <= 262144 THEN 4 ELSE IF num_sec <= 524288 THEN 8
              ELSE IF num_sec <= 1048576 THEN 16
              ELSE IF num_sec <= 2097152 THEN 32
              ELSE IF num_sec <= 4194304 THEN 64 ELSE 0)
      [] OTHER -> (IF num_sec <= 32768 THEN 64 ELSE 0)

\* Lines 1082-1208: the header mkfs builds for number_of_fats = 2, with the
\* signature _write_bpb_header adds when close writes it
MkfsHeader(ft, size, sector_size, media_type) ==
    LET num_sec == (size + sector_size - 1) \div sector_size
        spc == sec_per_clus(ft, num_sec)
        root_ent_cnt == IF ft = FAT_TYPE_FAT32 THEN 0
                        ELSE IF ft = FAT_TYPE_FAT16 THEN 512 ELSE 224
        rsvd_sec_cnt == IF ft = FAT_TYPE_FAT32 THEN 32 ELSE 1
        root_dir_sectors == (root_ent_cnt * 32 + sector_size - 1) \div sector_size
        tmp_val1 == size - (rsvd_sec_cnt + root_dir_sectors)
        tmp_val2 == IF ft = FAT_TYPE_FAT32 THEN (256 * spc + NumFATs) \div 2
                    ELSE 256 * spc + NumFATs
        _fat_size == (((tmp_val1 + tmp_val2 - 1) \div tmp_val2) +
                      sector_size - 1) \div sector_size
        wide == ft = FAT_TYPE_FAT32 \/ num_sec >= 65536
    IN  [BS_jmpBoot0 |-> 235, BS_jmpBoot2 |-> 144,
         BPB_BytsPerSec |-> sector_size, BPB_SecPerClus |-> spc,
         BPB_RsvdSecCnt |-> rsvd_sec_cnt, BPB_NumFATs |-> NumFATs,
         BPB_RootEntCnt |-> root_ent_cnt,
         BPB_TotSec16 |-> IF wide THEN 0 ELSE num_sec,
         BPB_TotSec32 |-> IF wide THEN num_sec ELSE 0,
         BPB_Media |-> media_type,
         BPB_FATSz16 |-> IF ft = FAT_TYPE_FAT32 THEN 0 ELSE _fat_size % 65536,
         BPB_FATSz32 |-> IF ft = FAT_TYPE_FAT32 THEN _fat_size ELSE 0,
         BS_Reserved1 |-> 0, Signature |-> 43605]

\* Faulty variant of MkfsFat: cell 2 is taken by a root directory cluster.
MkfsFat_RootCluster(ft, media_type) ==
    [j \in 1 .. MkfsCells |->
        IF j = 1
        THEN (CASE ft = FAT_TYPE_FAT12 -> 4080
                [] ft = FAT_TYPE_FAT16 -> 65520
                [] OTHER -> 268435440) + (media_type % 15)
        ELSE IF j = 2 THEN ReservedCells(ft)[2]
        ELSE IF j = 3 THEN END_OF_CLUSTER_MAX(ft)
        ELSE 0]

\* Lines 1213-1222: self.fat with cells 0 and 1 set; the masks end in a zero
\* nibble, so | (BPB_Media % 0xF) adds the remainder
MkfsFat(ft, media_type) ==
    [j \in 1 .. MkfsCells |->
        IF j = 1
        THEN (CASE ft = FAT_TYPE_FAT12 -> 4080
                [] ft = FAT_TYPE_FAT16 -> 65520
                [] OTHER -> 268435440) + (media_type % 15)
        ELSE IF j = 2 THEN ReservedCells(ft)[2]
        ELSE 0]

\* self.__fp.truncate(size): the file cut or extended with zeroes
Truncate(b, n) == [k \in 1 .. n |-> IF k <= Len(b) THEN b[k] ELSE 0]

\* The bytes of a volume of geometry g
ContainerSize(g) ==
    first_data_byte(g.fat_type, g) + (EntriesOf(g) - 2) * BytesPerCluster

\* Lines 1064 and 1213-1259 on the container b: truncate, the FAT flushed,
\* the boot code after the header, on FAT32 the root cluster allocated and
\* erased and the boot code of the backup, parse_root_dir, the volume label
\* added to the entries it found, update_directory_entry of the root. The
\* FSInfo sectors are not part of the images.
mkfs(b, g, media_type) ==
    LET ft == g.fat_type
        f0 == MkfsFat(ft, media_type)
        b1 == WriteAt(flush_fat(ft, g, f0, Truncate(b, ContainerSize(g))),
                      1, <<14>>)
        d1 == ClusterView(ft, g, f0, b1)
        a == IF ft = FAT_TYPE_FAT32
             THEN allocate_bytes(ft, f0, 0, d1, 1, TRUE)
             ELSE [outcome |-> "ok", result |-> <<>>, fat |-> f0,
                   first_free_cluster |-> 0, disk |-> d1]
        b2 == IF ft = FAT_TYPE_FAT32
              THEN WriteAt(StoreClusters(ft, g, b1, d1, a.disk, 2),
                           1 + backup_offset, <<14>>)
              ELSE b1
        root == parse_root_dir(ft, g, a.fat, b2)
        entries == root.entries \o <<ATTR_VOLUME_ID>>
        d2 == ClusterView(ft, g, a.fat, b2)
        w == write_data_to_cluster(ft, a.fat, a.first_free_cluster, d2,
                                   entries, a.result[1], TRUE, TRUE)
    IN  IF a.outcome # "ok" \/ root.error # "none"
        THEN [outcome |-> IF a.outcome # "ok" THEN a.outcome ELSE root.error,
              fat |-> a.fat, first_free_cluster |-> a.first_free_cluster,
              img |-> b2, root_clus |-> BPB_RootClus]
        ELSE IF ft = FAT_TYPE_FAT32
        THEN [outcome |-> w.outcome, fat |-> w.fat,
              first_free_cluster |-> w.first_free_cluster,
              img |-> StoreClusters(ft, g, b2, d2, w.disk, 2),
              root_clus |-> a.result[1]]
        ELSE IF Len(entries) > root_dir_sz(ft)
        THEN [outcome |-> "ENOSPC", fat |-> a.fat,
              first_free_cluster |-> a.first_free_cluster, img |-> b2,
              root_clus |-> 0]
        ELSE [outcome |-> "ok", fat |-> a.fat,
              first_free_cluster |-> a.first_free_cluster,
              img |-> WriteAt(b2, root_dir_addr(ft, g),
                              entries \o Zeroes(root_dir_sz(ft) - Len(entries))),
              root_clus |-> 0]

\* FATSz * BytsPerSec of the volumes mkfs makes
MkfsFatSizes(ft) ==
    CASE ft = FAT_TYPE_FAT12 -> FatSizes(ft)
      [] ft = FAT_TYPE_FAT16 -> {2 * (MkfsCells + 1)}
      [] OTHER               -> {4 * (MkfsCells + 1)}

MkfsGeometries ==
    UNION {{[fat_type |-> ft, fat_size |-> s] : s \in MkfsFatSizes(ft)} :
              ft \in FatTypes}

\* size and sector_size of the calls: the smallest and larger volumes of each
\* type, sectors of 512 bytes and more, and for each type a call that
\* __verify_bpb_header rejects
MkfsArgs(ft) ==
    CASE ft = FAT_TYPE_FAT12 ->
             {<<1474560, 512>>, <<16777216, 512>>, <<8388608, 1024>>,
              <<33554432, 512>>, <<1474560, 2048>>}
      [] ft = FAT_TYPE_FAT16 ->
             {<<4301312, 512>>, <<33554432, 512>>, <<1073741824, 512>>,
              <<67108864, 4096>>, <<4194304, 512>>}
      [] OTHER ->
             {<<34099712, 512>>, <<268435456, 512>>, <<1073741824, 512>>,
              <<1073741824, 4096>>, <<33554432, 512>>}

MediaTypes == {240} \cup (248 .. 255)

\* A used container: a populated volume whose FAT12/16 root region holds
\* one entry
UsedContainer(g) ==
    IF g.fat_type = FAT_TYPE_FAT32 THEN MakeImage(g, "populated")
    ELSE WriteAt(MakeImage(g, "populated"), root_dir_addr(g.fat_type, g),
                 DirOf(1))

\* A new PyFat instance and the file mkfs is given: empty, or a used volume
InitMkfs ==
    /\ \/ img = <<>>
       \/ \E g \in MkfsGeometries : img = UsedContainer(g)
    /\ geom = [fat_type |-> FAT_TYPE_UNKNOWN, fat_size |-> 0]
    /\ fat_type = FAT_TYPE_UNKNOWN
    /\ fat = <<>>
    /\ first_free_cluster = 0
    /\ disk = <<>>
    /\ gen = NoGen
    /\ last = NoCall
    /\ chains = {}
    /\ bpb_header = [BS_Reserved1 |-> 0]
    /\ initialized = FALSE
    /\ is_read_only = TRUE
    /\ fp = "none"
    /\ warnings = {}
    /\ run = NoRun
    /\ hist = NoHist
    /\ lock = 0
    /\ pos = 0
    /\ threads = <<>>

\* PyFat().mkfs(filename, fat_type, size, sector_size, media_type=...). geom
\* takes the header the call builds, the FAT type an open of the closed
\* volume determines from it and the arguments of the call. A call that
\* raises ends the behaviour.
Mkfs ==
    /\ fp = "none"
    /\ \E ft \in FatTypes, media_type \in MediaTypes :
       \E s \in MkfsFatSizes(ft), args \in MkfsArgs(ft) :
       \E hdr \in {MkfsHeader(ft, args[1], args[2], media_type)} :
       \E g \in {[fat_type |-> ft, fat_size |-> s]} :
       \E r \in {IF __verify_bpb_header(hdr) \in {"none", "warn_32K"}
                 THEN mkfs(img, g, media_type)
                 ELSE [outcome |-> __verify_bpb_header(hdr), fat |-> <<>>,
                       first_free_cluster |-> 0,
                       img |-> Truncate(img, ContainerSize(g)),
                       root_clus |-> 0]} :
          /\ initialized' = TRUE
          /\ is_read_only' = FALSE
          /\ fat_type' = ft
          /\ fp' = "open"
          /\ bpb_header' = hdr
          /\ fat' = r.fat
          /\ first_free_cluster' = r.first_free_cluster
          /\ img' = r.img
          /\ geom' = [fat_type |-> parse_header(hdr).fat_type,
                      fat_size |-> s,
                      bpb |-> hdr, root_clus |-> r.root_clus,
                      mkfs |-> [fat_type |-> ft, media_type |-> media_type,
                                used |-> img # <<>>]]
          /\ run' = IF r.outcome = "ok" THEN NoRun
                    ELSE [NoRun EXCEPT !.op = "raised"]
          /\ last' = [op |-> "mkfs", outcome |-> r.outcome]
    /\ UNCHANGED <<disk, gen, chains, warnings, hist>>
    /\ UNCHANGED thrvars

\* mkfs with a fat_type that is none of FAT12, FAT16, FAT32: lines 1045-1046
\* have run when line 1050 raises, and no container was opened. The
\* behaviour goes on only with another mkfs.
MkfsUnsupported ==
    /\ fp = "none"
    /\ last = NoCall
    /\ initialized' = TRUE
    /\ is_read_only' = FALSE
    /\ last' = [op |-> "mkfs", outcome |-> "Unsupported FAT type"]
    /\ run' = [NoRun EXCEPT !.op = "raised"]
    /\ UNCHANGED <<fat_type, fat, first_free_cluster, disk, gen, chains, img,
                   geom, bpb_header, fp, warnings, hist>>
    /\ UNCHANGED thrvars

\* allocate_bytes(size) on the volume mkfs made, for one and three clusters
MkfsAllocate ==
    /\ CanCall
    /\ fp = "open"
    /\ \E size \in {1, 2 * BytesPerCluster + 1} :
         LET chk == Checked(initialized, is_read_only)
             rec == [op |-> "alloc", size |-> size, calls |-> hist.calls]
         IN
         IF chk # "run"
         THEN Call(rec @@ [result |-> <<>>], Rejected(chk), chains, hist.dir)
         ELSE \E d \in {ClusterView(fat_type, geom, fat, img)} :
              \E r \in {allocate_bytes(fat_type, fat, first_free_cluster, d,
                                       size, FALSE)} :
                 Call(rec @@ [result |-> r.result],
                      [outcome |-> r.outcome, fat |-> r.fat,
                       first_free_cluster |-> r.first_free_cluster,
                       img |-> img],
                      IF r.outcome = "ok" THEN chains \cup {r.result[1]}
                      ELSE chains,
                      hist.dir)

\* A new instance opens the container mkfs made, after the close
Reopen == fp = "closed" /\ Open

NextMkfs ==
    \/ Mkfs
    \/ MkfsUnsupported
    \/ MkfsAllocate
    \/ Close
    \/ CloseWrite
    \/ CloseEnd
    \/ Reopen

SpecMkfs == InitMkfs /\ [][NextMkfs]_vars

----------------------------------------------------------------------------
(* Directories scanned from a container: parse_dir_entries_in_address,
   PyFat.py:707-768, parse_dir_entries_in_cluster_chain, PyFat.py:770-784 *)

\* The records a directory may hold: the last-entry mark, the free mark, an
\* entry
DirRecords == {LAST_DIR_ENTRY_MARK, FREE_DIR_ENTRY_MARK, 65}

\* An opened volume with a directory in the chain of clusters 2 and 3 and,
\* on FAT12/16, the root directory region, both holding any records
InitDir ==
    /\ \E g \in Geometries :
       \E recs \in [1 .. (2 * BytesPerCluster) -> DirRecords],
          root \in [1 .. root_dir_sz(g.fat_type) -> DirRecords] :
          /\ geom = g
          /\ fat_type = g.fat_type
          /\ img = WriteAt(WriteAt(MakeImage(g, "populated"),
                                   first_data_byte(g.fat_type, g), recs),
                           root_dir_addr(g.fat_type, g), root)
          /\ fat = _parse_fat(g.fat_type, g, MakeImage(g, "populated")).fat
    /\ first_free_cluster = 0
    /\ disk = <<>>
    /\ gen = NoGen
    /\ last = NoCall
    /\ chains = {2}
    /\ bpb_header = [BS_Reserved1 |-> 0]
    /\ initialized = TRUE
    /\ is_read_only = TRUE
    /\ fp = "open"
    /\ warnings = {}
    /\ run = NoRun
    /\ hist = NoHist
    /\ lock = 0
    /\ pos = 0
    /\ threads = <<>>

\* parse_dir_entries_in_cluster_chain(2)
ScanChain ==
    /\ last = NoCall
    /\ \E r \in {parse_dir_entries_in_cluster_chain(fat_type, geom, fat, img, 2)} :
          last' = [op |-> "scan_chain", outcome |-> r.error,
                   entries |-> r.entries,
                   records |-> ReadAt(img, first_data_byte(fat_type, geom),
                                      2 * BytesPerCluster)]
    /\ UNCHANGED <<fat_type, fat, first_free_cluster, disk, gen, chains>>
    /\ UNCHANGED volvars

\* parse_dir_entries_in_address over the FAT12/16 root directory region
ScanRange ==
    /\ last = NoCall
    /\ fat_type # FAT_TYPE_FAT32
    /\ \E recs \in {ReadAt(img, root_dir_addr(fat_type, geom),
                          root_dir_sz(fat_type))} :
          last' = [op |-> "scan_range", outcome |-> "none",
                   entries |-> parse_dir_entries_in_address(recs, <<>>),
                   records |-> recs]
    /\ UNCHANGED <<fat_type, fat, first_free_cluster, disk, gen, chains>>
    /\ UNCHANGED volvars

NextDir == ScanChain \/ ScanRange

SpecDir == InitDir /\ [][NextDir]_vars

----------------------------------------------------------------------------
(* The data region as an instance computes it, at the scale of the code:
   parse_header PyFat.py:936-948, mkfs PyFat.py:1170-1173,
   get_data_cluster_address PyFat.py:786-795 *)

\* self.first_data_sector for the header h of the volume. parse_header adds
\* the sectors of the FAT12/16 root directory (lines 942-948); mkfs sets
\* rsvd_sec_cnt + number_of_fats * self._fat_size (lines 1172-1173), and
\* self._fat_size is the FAT size it writes to the header.
first_data_sector(h, by_mkfs) ==
    IF by_mkfs
    THEN h.BPB_RsvdSecCnt + h.BPB_NumFATs * _get_fat_size_count(h)
    ELSE h.BPB_RsvdSecCnt + (h.BPB_NumFATs * _get_fat_size_count(h)) +
         ((h.BPB_RootEntCnt * 32 + (h.BPB_BytsPerSec - 1)) \div
              h.BPB_BytsPerSec)

\* get_data_cluster_address(cluster) of an instance whose first_data_sector
\* is fds
DataClusterAddress(h, fds, cluster) ==
    ((cluster - 2) * h.BPB_SecPerClus + fds) * h.BPB_BytsPerSec

\* The instance at hand made the volume with mkfs; after a close the volume
\* is opened by a new instance
MadeByThisInstance == hist.opens = 0

----------------------------------------------------------------------------
(* Vocabulary of the claims *)

IsData(ft, v) == MIN_DATA_CLUSTER(ft) <= v /\ v <= MAX_DATA_CLUSTER(ft)
IsEoc(ft, v) ==
    \/ END_OF_CLUSTER_MIN(ft) <= v /\ v <= END_OF_CLUSTER_MAX(ft)
    \/ ft = FAT_TYPE_FAT12 /\ v = FAT12_SPECIAL_EOC
Max(a, b) == IF a >= b THEN a ELSE b

\* The concatenation of read_cluster_contents over the cells of a chain
RECURSIVE ReadChain(_, _)
ReadChain(d, cells) ==
    IF cells = <<>> THEN <<>>
    ELSE read_cluster_contents(d, Head(cells)) \o ReadChain(d, Tail(cells))

Allocated == last.op = "alloc" /\ last.outcome = "ok" /\ last.size > 0

----------------------------------------------------------------------------
(* Claims *)

\* C1: after a successful alloc = allocate_bytes(s, erase=e) with s > 0,
\* len(alloc) = ceil(s / bytes_per_cluster); alloc is strictly ascending;
\* every index of alloc held FREE before the call; each cell of alloc points
\* to the next and the last holds END_OF_CLUSTER_MAX, so that
\* get_cluster_chain(alloc[0]) yields exactly alloc; no cell outside alloc
\* changes; and with e true every allocated cluster reads back as zeroes.
C1_AllocationCorrect ==
    Allocated =>
      LET a == last.result
          n == Len(a)
      IN  /\ n * BytesPerCluster >= last.size
          /\ (n - 1) * BytesPerCluster < last.size
          /\ \A k \in 1 .. (n - 1) : a[k] < a[k + 1]
          /\ \A k \in 1 .. n :
                /\ a[k] \in Cells(last.fat0)
                /\ At(last.fat0, a[k]) = FREE_CLUSTER(fat_type)
          /\ \A k \in 1 .. (n - 1) : At(fat, a[k]) = a[k + 1]
          /\ At(fat, a[n]) = END_OF_CLUSTER_MAX(fat_type)
          /\ get_cluster_chain(fat_type, fat, a[1]) =
                [cells |-> a, end |-> "eoc"]
          /\ FatLen(fat) = FatLen(last.fat0)
          /\ \A c \in Cells(fat) \ SeqSet(a) : At(fat, c) = At(last.fat0, c)
          /\ last.erase =>
                \A k \in 1 .. n :
                   read_cluster_contents(disk, a[k]) = Zeroes(BytesPerCluster)

\* C1 witness: an erasing allocation of two clusters, made after an earlier
\* call moved first_free_cluster, on a table that holds another chain.
C1_Witness ==
    /\ Allocated
    /\ last.erase
    /\ Len(last.result) >= 2
    /\ last.fff0 >= 2
    /\ \E c \in DataCells(fat) \ SeqSet(last.result) :
          At(fat, c) # FREE_CLUSTER(fat_type)

\* C2: get_cluster_chain(start) classifies fat[c] from c = start: a value in
\* [MIN_DATA, MAX_DATA] yields c and continues with c = fat[c]; a value in the
\* EOC range, or 0xFF0 on FAT12, yields c and ends; BAD, FREE or any other
\* value raises and yields nothing more. For the FAT12 cells
\* [_, _, 3, 4, 5, 0xFF0, 0, ...] get_cluster_chain(2) yields 2, 3, 4, 5.
C2_Classification ==
    LET o == gen.out
        n == Len(gen.out)
        v == At(fat, gen.i)
        ended == gen.pc \notin {"idle", "run"}
    IN
    gen.pc # "idle" =>
      /\ (o # <<>> => o[1] = gen.first)
      /\ (o = <<>> /\ gen.pc = "run" => gen.i = gen.first)
      /\ \A k \in 1 .. n :
            /\ o[k] \in Cells(fat)
            /\ k < n => /\ IsData(fat_type, At(fat, o[k]))
                        /\ o[k + 1] = At(fat, o[k])
      /\ (gen.pc = "run" /\ o # <<>> /\ n <= FatLen(fat)) =>
            /\ IsData(fat_type, At(fat, o[n]))
            /\ gen.i = At(fat, o[n])
      /\ gen.pc = "done" =>
            /\ o # <<>>
            /\ o[n] = gen.i
            /\ IsEoc(fat_type, v)
      /\ gen.pc \in {"bad", "free", "invalid"} =>
            /\ gen.i \in Cells(fat)
            /\ gen.i \notin SeqSet(o)
            /\ ~IsData(fat_type, v) /\ ~IsEoc(fat_type, v)
            /\ gen.pc = "bad" <=> v = BAD_CLUSTER(fat_type)
            /\ gen.pc = "free" <=> v = FREE_CLUSTER(fat_type)
      /\ (ended /\ gen.i \in Cells(fat)) =>
            /\ ~IsData(fat_type, v)
            /\ IsEoc(fat_type, v) => gen.pc = "done"
            /\ ~IsEoc(fat_type, v) => gen.pc \in {"bad", "free", "invalid"}
      /\ ( /\ fat_type = FAT_TYPE_FAT12
           /\ FatLen(fat) >= 6
           /\ At(fat, 2) = 3 /\ At(fat, 3) = 4 /\ At(fat, 4) = 5
           /\ At(fat, 5) = FAT12_SPECIAL_EOC
           /\ gen.first = 2
           /\ ended ) => (gen.pc = "done" /\ o = <<2, 3, 4, 5>>)

\* C2 witness: the traversal of the example table from cluster 2 has ended.
C2_Witness ==
    /\ fat = ExampleImage
    /\ gen.first = 2
    /\ gen.pc = "done"
    /\ gen.out = <<2, 3, 4, 5>>

\* C3: for every content of the table and every start cluster the sequence
\* get_cluster_chain produces is finite: the traversal always ends.
C3_Terminates == <>(gen.pc # "run")

\* C4: a traversal from a start cluster inside the table ends either after
\* yielding an index whose cell is an end-of-chain value, every earlier yielded
\* index holding a data value, or with the corrupt-chain error; a data value
\* at or past the end of the table makes it neither end silently nor read the
\* table out of bounds.
C4_EndsAtEocOrCorruptChain ==
    LET o == gen.out
        n == Len(gen.out)
    IN
    (gen.pc \notin {"idle", "run"} /\ gen.first \in Cells(fat)) =>
       \/ /\ gen.pc = "done"
          /\ o # <<>>
          /\ IsEoc(fat_type, At(fat, o[n]))
          /\ \A k \in 1 .. (n - 1) : IsData(fat_type, At(fat, o[k]))
       \/ gen.pc \in {"bad", "free", "invalid"}

\* C5: allocate_bytes(size) with n = ceil(size / bytes_per_cluster) > 0 fails
\* with the no-space error if and only if fewer than n FREE cells exist at
\* indices i with max(first_free_cluster, MIN_DATA) <= i <=
\* min(len(fat) - 1, MAX_DATA); with at least n of them it succeeds, also
\* when the n-th is the last cell of the table.
FreeInRange(ft, f, fff) ==
    {i \in Cells(f) :
        /\ Max(fff, MIN_DATA_CLUSTER(ft)) <= i
        /\ i <= MAX_DATA_CLUSTER(ft)
        /\ At(f, i) = FREE_CLUSTER(ft)}

C5_NoSpaceIffTooFewFree ==
    (last.op = "alloc" /\ last.size > 0) =>
       LET n == CHOOSE m \in 1 .. last.size :
                   /\ m * BytesPerCluster >= last.size
                   /\ (m - 1) * BytesPerCluster < last.size
           free == FreeInRange(fat_type, last.fat0, last.fff0)
       IN  /\ last.outcome \in {"ok", "ENOSPC"}
           /\ last.outcome = "ENOSPC" <=> Cardinality(free) < n

\* C6: when alloc = allocate_bytes(s), s > 0, succeeds, a call of
\* free_cluster_chain(alloc[0]) right after it makes the FAT equal, cell for
\* cell, to the FAT before the allocation.
C6_FreeRestoresFat ==
    (last.op = "free" /\ last.after_alloc) =>
       /\ last.outcome = "ok"
       /\ fat = last.alloc_fat0

\* C6 witness: a chain of two clusters, allocated beside an older chain, has
\* been freed again.
C6_Witness ==
    /\ last.op = "free"
    /\ last.after_alloc
    /\ Len(last.freed) >= 2
    /\ \E c \in DataCells(fat) : IsEoc(fat_type, At(fat, c))

\* C7: free_cluster_chain(head) sets exactly the cells get_cluster_chain(head)
\* yields to FREE and changes no other cell; when the traversal fails
\* part-way (a BAD, FREE or invalid cell after some cells were visited) the
\* call fails and the FAT is exactly the FAT from before the call.
C7_FreeExactOrUnchanged ==
    last.op = "free" =>
       LET chain == get_cluster_chain(fat_type, last.fat0, last.cluster) IN
       /\ FatLen(fat) = FatLen(last.fat0)
       /\ chain.end \in {"bad", "free", "invalid"} => last.outcome = chain.end
       /\ last.outcome = "ok" =>
             \A c \in Cells(fat) :
                At(fat, c) = IF c \in SeqSet(chain.cells)
                             THEN FREE_CLUSTER(fat_type)
                             ELSE At(last.fat0, c)
       /\ last.outcome # "ok" => fat = last.fat0

\* C7 witness: a call that failed on a BAD, FREE or invalid cell after it had
\* visited two cells.
C7_Witness ==
    /\ last.op = "free"
    /\ last.outcome \in {"bad", "free", "invalid"}
    /\ Len(last.freed) >= 2

\* C8: from an opened volume whose chains are well-formed, after any sequence
\* of allocate_bytes, write_data_to_cluster and free_cluster_chain calls on
\* chain heads, successful or failed, every chain allocated and not freed is
\* well-formed: each cell but the last holds a data value, the last an
\* end-of-chain value, and no BAD or FREE cell is reachable from its head.
WellFormedChain(ft, f, head) ==
    LET chain == get_cluster_chain(ft, f, head)
        n == Len(chain.cells)
    IN  /\ chain.end = "eoc"
        /\ n >= 1
        /\ chain.cells[1] = head
        /\ \A k \in 1 .. n :
              /\ chain.cells[k] \in DataCells(f)
              /\ At(f, chain.cells[k]) \notin
                    {FREE_CLUSTER(ft), BAD_CLUSTER(ft)}
              /\ k < n => /\ IsData(ft, At(f, chain.cells[k]))
                          /\ At(f, chain.cells[k]) = chain.cells[k + 1]
        /\ IsEoc(ft, At(f, chain.cells[n]))

C8_ChainsWellFormed == \A head \in chains : WellFormedChain(fat_type, fat, head)

\* C8 witness: a write has extended a chain while another chain is allocated.
C8_Witness ==
    /\ last.op = "write"
    /\ last.outcome = "ok"
    /\ fat # last.fat0
    /\ Cardinality(chains) >= 2

\* C9: in every state reached by such a sequence of calls first_free_cluster
\* is at most the index of every FREE cell whose index lies in
\* [MIN_DATA, MAX_DATA].
C9_HintIsLowerBound ==
    \A c \in Cells(fat) :
       ( /\ At(fat, c) = FREE_CLUSTER(fat_type)
         /\ MIN_DATA_CLUSTER(fat_type) <= c
         /\ c <= MAX_DATA_CLUSTER(fat_type) ) => first_free_cluster <= c

\* C9 witness: a free has lowered first_free_cluster from where an earlier
\* allocation had left it.
C9_Witness ==
    /\ last.op = "free"
    /\ last.outcome = "ok"
    /\ last.fff0 > first_free_cluster
    /\ first_free_cluster > 2

\* C10: after a successful write_data_to_cluster(data, head, extend_cluster =
\* True, erase) on a well-formed chain of k >= 1 clusters the chain from head
\* has max(k, ceil(len(data) / bytes_per_cluster)) clusters, its first k are
\* the old chain in the old order (the old last cell points to the head of the
\* new part when the chain grew), the concatenation of read_cluster_contents
\* over the chain begins with data, and with erase true the rest of the last
\* written cluster is zero.
C10_ExtendOnWrite ==
    (last.op = "write" /\ last.outcome = "ok" /\ last.extend_cluster) =>
       LET old == get_cluster_chain(fat_type, last.fat0, last.cluster).cells
           new == get_cluster_chain(fat_type, fat, last.cluster)
           k == Len(old)
           sz == Len(last.data)
           m == CHOOSE j \in 0 .. sz :
                   /\ j * BytesPerCluster >= sz
                   /\ j = 0 \/ (j - 1) * BytesPerCluster < sz
           contents == ReadChain(disk, new.cells)
       IN  /\ k >= 1
           /\ new.end = "eoc"
           /\ Len(new.cells) = Max(k, m)
           /\ SubSeq(new.cells, 1, k) = old
           /\ m > k => At(fat, old[k]) = new.cells[k + 1]
           /\ SubSeq(contents, 1, sz) = last.data
           /\ last.erase =>
                 \A j \in (sz + 1) .. (Max(1, m) * BytesPerCluster) :
                    contents[j] = 0

\* C10 witness: an erasing write grew the chain and ended inside a cluster.
C10_Witness ==
    /\ last.op = "write"
    /\ last.outcome = "ok"
    /\ last.extend_cluster
    /\ last.erase
    /\ fat # last.fat0
    /\ Len(last.data) % BytesPerCluster # 0

----------------------------------------------------------------------------
(* Claims about a volume on a container *)

\* The step is a call that went through the decorators (a rejected close
\* included)
CallStep == hist'.calls # hist.calls

\* The volume was opened writable, the open succeeded and no close has ended
WritableSession ==
    fp = "open" /\ ~is_read_only /\ hist.open_outcome = "ok"

\* The state is the one a re-open leaves after a writable session that ended
\* in a close
Reopened ==
    last.op = "open" /\ last.outcome = "ok" /\ hist.after_clean_close

\* C11: for a directory D that is the FAT32 root or a non-root directory and
\* every list of entries (also one that needs fewer clusters than D's chain
\* has, or fills its clusters exactly), after update_directory_entry(D), close
\* and re-open, the scan of D's cluster chain yields exactly D's entries in
\* order.
C11_DirectoryClosure ==
    (Reopened /\ hist.dir # <<>>) =>
       LET scan == parse_dir_entries_in_cluster_chain(fat_type, geom, fat, img,
                                                      hist.dir.cluster)
       IN  /\ scan.error = "none"
           /\ scan.entries = DirOf(hist.dir.n)

\* C12: update_directory_entry on the FAT12/16 root: a list longer than the
\* root region fails with the no-space error and changes no byte of the
\* container and no cell of the FAT; any other list rewrites exactly the root
\* region as the entries followed by zeroes, the FAT is unchanged and no
\* cluster is allocated.
C12_FixedRootUpdate ==
    [][ ( /\ CallStep
          /\ last'.op = "update"
          /\ last'.outcome \notin Rejections
          /\ last'.root
          /\ fat_type # FAT_TYPE_FAT32 ) =>
        LET n == last'.n
            sz == root_dir_sz(fat_type)
            addr == root_dir_addr(fat_type, geom)
            region == DirOf(n) \o Zeroes(sz - n)
        IN  /\ fat' = fat
            /\ first_free_cluster' = first_free_cluster
            /\ IF n > sz
               THEN last'.outcome = "ENOSPC" /\ img' = img
               ELSE /\ last'.outcome = "ok"
                    /\ Len(img') = Len(img)
                    /\ \A a \in 1 .. Len(img) :
                          img'[a] = IF addr < a /\ a <= addr + sz
                                    THEN region[a - addr] ELSE img[a]
      ]_vars

\* C12 witness: the root region holds one entry and zeroes after an update
\* that replaced a longer list.
C12_Witness ==
    /\ last.op = "update"
    /\ last.outcome = "ok"
    /\ last.root
    /\ fat_type = FAT_TYPE_FAT12
    /\ last.n = 1
    /\ hist.calls >= 2
    /\ ReadAt(img, root_dir_addr(fat_type, geom), root_dir_sz(fat_type)) =
          DirOf(1) \o Zeroes(root_dir_sz(fat_type) - 1)

\* C13: after a writable open returns, _is_dirty() is true: on FAT16/32 the
\* clean-shutdown bit of FAT[1] is cleared and on every type bit 0 of
\* BS_Reserved1 is set; after close() of that volume a re-open finds the
\* volume not dirty in the check it makes before it marks (no dirty
\* diagnostic), whatever the dirty state before the first open.
C13_DirtyProtocol ==
    /\ (last.op = "open" /\ last.outcome = "ok" /\ ~is_read_only) =>
          /\ _is_dirty(fat_type, fat, bpb_header)
          /\ HasCleanShutdownBit(fat_type) =>
                BitAnd(At(fat, 1), CleanShutdownBitmask(fat_type)) = 0
          /\ BitAnd(bpb_header.BS_Reserved1, FAT_DIRTY_BIT_MASK) =
                FAT_DIRTY_BIT_MASK
    /\ Reopened => "dirty" \notin warnings

\* C13 witness: a FAT32 volume that was dirty at its first open has been
\* closed and opened writable again without a dirty diagnostic.
C13_Witness ==
    /\ Reopened
    /\ ~is_read_only
    /\ fat_type = FAT_TYPE_FAT32
    /\ hist.dirty_seen
    /\ "dirty" \notin warnings
    /\ _is_dirty(fat_type, fat, bpb_header)

\* What _is_dirty() evaluates to in an open of the bytes b afresh
ImageDirty(b) ==
    _is_dirty(geom.fat_type, _parse_fat(geom.fat_type, geom, b).fat,
              ParseBpb(ReadAt(b, 0, BootSectorSize)))

\* The close in progress has written the boot-sector header at offset 0
HeaderWritten == run.op = "close" /\ "bpb" \in SeqSet(run.done)

\* C14: from the moment a writable open returns until close() performs its
\* last write the on-disk image is dirty: abandoned at any such point, after
\* any calls or part-way through close, the container's bytes opened afresh
\* evaluate _is_dirty() to true.
C14_DirtyUntilLastWrite ==
    (WritableSession /\ ~(run.op = "close" /\ run.todo = <<>>)) =>
       ImageDirty(img)

\* C14, amended: from the moment a writable open returns until close() writes
\* the boot-sector header at offset 0 the on-disk image is dirty: abandoned
\* at any such point, after any calls or part-way through close, the
\* container's bytes opened afresh evaluate _is_dirty() to true.
C14_DirtyUntilHeaderWrite ==
    (WritableSession /\ ~HeaderWritten) => ImageDirty(img)

\* C14 witness: a close of a FAT16 volume, after a call, has written the FAT
\* with the clean-shutdown bit set and not yet the header.
C14_Witness ==
    /\ WritableSession
    /\ fat_type = FAT_TYPE_FAT16
    /\ hist.calls > 0
    /\ run.op = "close"
    /\ run.done # <<>>
    /\ ~HeaderWritten
    /\ ImageDirty(img)

\* C15: after close() of a writable volume of any FAT type every on-disk FAT
\* copy equals the encoding of the in-memory FAT as it stood at close, so a
\* re-open decodes the same FAT cells.
C15_CloseFlushesFat ==
    (last.op = "close" /\ last.outcome = "ok" /\ hist.clean_close) =>
       LET enc == __bytes__(fat_type, fat) IN
       /\ \A i \in 0 .. (NumFATs - 1) :
             SubSeq(FatCopy(fat_type, geom, img, i), 1, Len(enc)) = enc
       /\ _parse_fat(fat_type, geom, img).fat = fat

\* C16: open uses the first FAT copy as the in-memory FAT whatever the other
\* copies hold, and after flush_fat() all the copies are byte-identical over
\* their whole extent, whichever cell they differed in before, so that the
\* next open reports no divergence.
C16_FlushMakesCopiesIdentical ==
    /\ (last.op = "open" /\ last.outcome = "ok") =>
          _parse_fat(fat_type, geom, img).fat = fat
    /\ (last.op = "flush" /\ last.outcome = "ok") =>
          /\ Cardinality(FatCopies(fat_type, geom, img)) = 1
          /\ ~_parse_fat(fat_type, geom, img).differ

\* The bytes of all the FAT copies
FatRegion(b) ==
    ReadAt(b, first_fat_bytes(geom.fat_type), NumFATs * geom.fat_size)

\* C17: allocate_bytes, free_cluster_chain and write_data_to_cluster change
\* only the in-memory FAT: the on-disk FAT region is byte for byte unchanged
\* by them, and only flush_fat, called directly or through the dirty/clean
\* marking of open and close, writes it.
C17_OnlyFlushWritesFat ==
    [][ /\ (CallStep /\ last'.op \in {"alloc", "free", "write"}) =>
              FatRegion(img') = FatRegion(img)
        /\ FatRegion(img') # FatRegion(img) =>
              \/ CallStep /\ last'.op = "flush"
              \/ hist'.opens # hist.opens
              \/ run.op = "close" /\ Head(run.todo).what = "fat"
      ]_vars

\* C17 witness: a write has extended a chain in memory while the FAT on disk
\* still decodes to the table without the extension.
C17_Witness ==
    /\ WritableSession
    /\ last.op = "write"
    /\ last.outcome = "ok"
    /\ \E c \in DataCells(fat) :
          /\ IsData(fat_type, At(fat, c))
          /\ At(_parse_fat(fat_type, geom, img).fat, c) # At(fat, c)

\* The operations behind _readonly_check
WriteOps == {"alloc", "free", "write", "flush", "update", "write_address"}

\* C18: on a volume opened read-only allocate_bytes, free_cluster_chain,
\* write_data_to_cluster, flush_fat, update_directory_entry and the raw
\* address write each fail with the read-only error, and no open, read,
\* rejected write or close changes a byte of the container or a cell of the
\* in-memory FAT.
C18_ReadOnlyVolume ==
    [][ /\ (CallStep /\ initialized /\ is_read_only /\ last'.op \in WriteOps) =>
              last'.outcome = "ReadOnly"
        /\ is_read_only' =>
              /\ img' = img
              /\ last'.op # "open" => fat' = fat
      ]_vars

\* C18 witness: update_directory_entry was rejected on a read-only volume
\* whose image was dirty when it was opened.
C18_Witness ==
    /\ is_read_only
    /\ initialized
    /\ "dirty" \in warnings
    /\ last.op = "update"
    /\ last.outcome = "ReadOnly"

\* The operations behind _init_check that the state machine names
GuardedOps == {"read", "alloc", "free", "write", "flush", "update", "close"}

\* The state Open: a successful open, no close since
StateOpen == hist.open_outcome = "ok" /\ fp = "open"

\* C19: the volume is a state machine Uninitialized -> Open -> Closed: the
\* operations behind the initialized check fail without reading or writing
\* the container before a successful open and after close(); close() closes
\* the container and sets initialized to false, so a second close() fails
\* and writes nothing.
C19_InitCheckedStateMachine ==
    [][ /\ ( /\ CallStep \/ (run.op = "none" /\ run'.op = "close")
             /\ ~StateOpen
             /\ last'.op \in GuardedOps ) =>
              /\ last'.outcome = "NotInitialized"
              /\ img' = img
              /\ run'.todo = <<>>
        /\ (run.op = "close" /\ run'.op = "none") =>
              fp' = "closed" /\ ~initialized'
      ]_vars

\* C20: open_fs closes the volume on every exit path of the scope: when the
\* body returns and when it raises, close() has run (the volume is marked
\* clean, the container is closed) before control leaves open_fs.
C20_OpenFsClosesOnEveryExit ==
    run.scope = "left" =>
       /\ fp = "closed"
       /\ ~initialized
       /\ ~ImageDirty(img)

----------------------------------------------------------------------------
(* Claims about threads, failures of the container and the FAT on disk *)

\* Thread t has returned from allocate_bytes with a list of clusters
Allocated_By(t) ==
    /\ threads[t].op = "alloc"
    /\ threads[t].pc = "done"
    /\ threads[t].outcome = "ok"

\* The FAT two allocate_bytes calls leave when the call of thread a runs
\* before the call of thread b, both from the state the threads started from
SerialFat(a, b) ==
    LET d == ClusterView(fat_type, geom, last.fat0, last.img0)
        r1 == allocate_bytes(fat_type, last.fat0, last.fff0, d,
                             threads[a].size, threads[a].erase)
        r2 == allocate_bytes(fat_type, r1.fat, r1.first_free_cluster, d,
                             threads[b].size, threads[b].erase)
    IN  r2.fat

\* C21: when two threads call allocate_bytes concurrently on the same volume,
\* in every interleaving the two returned cluster lists are disjoint, each
\* returned chain is well-formed afterwards and the final FAT is the one the
\* two calls leave when run one after the other in some order.
C21_AllocateSerialized ==
    (Allocated_By(1) /\ Allocated_By(2)) =>
       /\ SeqSet(threads[1].free_clusters) \cap
             SeqSet(threads[2].free_clusters) = {}
       /\ \A t \in Threads :
             LET chain == get_cluster_chain(fat_type, fat,
                                            threads[t].free_clusters[1])
             IN  chain.end = "eoc" /\ chain.cells = threads[t].free_clusters
       /\ fat \in {SerialFat(1, 2), SerialFat(2, 1)}

\* C22: each seek and the read or write that follows it happen inside one
\* holding of the volume lock: no other thread's seek falls between them, so
\* a read or write is made at the address its thread sought and
\* read_cluster_contents returns the bytes stored at the cluster's address.
C22_SeekAndIoUnderLock ==
    \A t \in Threads :
       /\ threads[t].pc = "io" =>
             lock = t /\ pos = Head(threads[t].todo).address
       /\ (threads[t].pc # "io" /\ threads[t].outcome # "OSError") =>
             threads[t].at = threads[t].want
       /\ (threads[t].op = "read" /\ threads[t].outcome = "ok") =>
             threads[t].got = threads[t].stored

\* C22 witness: thread 1 holds the lock between its seek and its read while
\* thread 2 waits for the lock to write at another address.
C22_Witness ==
    /\ lock = 1
    /\ threads[1].op = "read"
    /\ threads[1].pc = "io"
    /\ threads[2].pc = "acquire"
    /\ threads[2].op = "write_address"
    /\ Head(threads[2].todo).address # pos

\* C23: if a container write fails in the middle of an operation the
\* in-memory FAT is the same as before the operation began: when
\* allocate_bytes(size, erase=True) fails while zeroing a cluster it selected
\* no FAT cell has changed. (Stated of a call no other thread runs beside.)
C23_FatUnchangedOnIoFailure ==
    \A t \in Threads :
       ( /\ threads[t].outcome = "OSError"
         /\ \A u \in Threads \ {t} : threads[u].pc = "idle" ) =>
          fat = last.fat0

\* The first FAT copy with the reserved high 4 bits of every FAT32 cell zeroed
RoundTripOf(b) ==
    [k \in 1 .. Len(b) |->
        IF fat_type = FAT_TYPE_FAT32 /\ k % 4 = 0 THEN b[k] % 16 ELSE b[k]]

\* C24: decoding the first on-disk FAT copy and encoding it again with no
\* mutation in between gives a byte string as long as the FAT copy and equal
\* to it byte for byte, except that the reserved high 4 bits of FAT32 cells
\* are zeroed, also for a FAT12 table whose size is no multiple of 3 bytes.
C24_FatRoundTrip ==
    last.op = "__bytes__" =>
       last.bytes = RoundTripOf(FatCopy(fat_type, geom, img, 0))

\* ceil(RootEntCnt x 32 / BytsPerSec)
RootDirSectorsOf(h) ==
    (h.BPB_RootEntCnt * 32 + h.BPB_BytsPerSec - 1) \div h.BPB_BytsPerSec

\* (total_sectors - (RsvdSecCnt + NumFATs x FATSz + root_dir_sectors)) div
\* SecPerClus, for a boot sector whose data sectors are not negative
ClusterCountOf(h) ==
    ((IF h.BPB_TotSec16 # 0 THEN h.BPB_TotSec16 ELSE h.BPB_TotSec32) -
     (h.BPB_RsvdSecCnt +
      h.BPB_NumFATs * (IF h.BPB_FATSz16 # 0 THEN h.BPB_FATSz16
                       ELSE h.BPB_FATSz32) +
      RootDirSectorsOf(h))) \div h.BPB_SecPerClus

CountOnlyType(n) ==
    IF n < 4085 THEN FAT_TYPE_FAT12
    ELSE IF n < 65525 THEN FAT_TYPE_FAT16 ELSE FAT_TYPE_FAT32

Opened == last.op = "open" /\ last.outcome = "ok"

\* C25: after open, fat_type is the classification computed from the cluster
\* count that subtracts the root directory sectors ceil(RootEntCnt x 32 /
\* BytsPerSec): FAT32 when FATSz16 = 0 and FATSz32 # 0; when FATSz16 # 0,
\* FAT16 if the count is >= 4085 and FAT12 if it is < 4085; a diagnostic is
\* emitted when this differs from the count-only rule.
C25_FatTypeFromClusterCount ==
    LET h == last.boot_sector
        n == ClusterCountOf(h)
    IN  (Opened /\ n >= 0) =>
           /\ (h.BPB_FATSz16 = 0 /\ h.BPB_FATSz32 # 0) =>
                 fat_type = FAT_TYPE_FAT32
           /\ h.BPB_FATSz16 # 0 =>
                 fat_type = (IF n >= 4085 THEN FAT_TYPE_FAT16
                             ELSE FAT_TYPE_FAT12)
           /\ (h.BPB_FATSz16 # 0 \/ h.BPB_FATSz32 # 0) =>
                 ("fat_type" \in warnings <=> fat_type # CountOnlyType(n))

\* The conditions on a boot sector, one by one
MeetsConditions(h) ==
    /\ \/ h.BS_jmpBoot0 = 235 /\ h.BS_jmpBoot2 = 144
       \/ h.BS_jmpBoot0 = 233
    /\ h.BPB_BytsPerSec \in {512, 1024, 2048, 4096}
    /\ h.BPB_SecPerClus \in {1, 2, 4, 8, 16, 32, 64, 128}
    /\ h.BPB_RsvdSecCnt >= 1
    /\ h.BPB_NumFATs >= 1
    /\ h.BPB_Media \in {240} \cup (248 .. 255)
    /\ \/ h.BPB_RootEntCnt = 0
       \/ (h.BPB_RootEntCnt * 32) % h.BPB_BytsPerSec = 0
    /\ ~(h.BPB_TotSec16 = 0 /\ h.BPB_TotSec32 = 0)
    /\ h.Signature = 43605

HeaderErrors ==
    {"jmpBoot_end", "jmpBoot_start", "BytsPerSec", "SecPerClus", "RsvdSecCnt",
     "Media", "NumFATs", "RootEntCnt", "TotSec", "Signature"}

\* C26: an open of a container whose boot sector violates any one of the
\* conditions (jump bytes, BytsPerSec, SecPerClus, RsvdSecCnt, NumFATs, Media,
\* RootEntCnt alignment, sector totals, signature 0xAA55) fails with an error,
\* leaves initialized false and writes no dirty marking; a boot sector that
\* meets all of them is accepted, also with both sector totals nonzero and
\* with more than 32768 bytes per cluster.
C26_BootSectorValidation ==
    last.op = "open" =>
       IF MeetsConditions(last.boot_sector)
       THEN initialized /\ last.outcome \notin HeaderErrors
       ELSE /\ last.outcome \in HeaderErrors
            /\ ~initialized
            /\ img = last.boot_sector

\* A writable container is rejected for its media type alone
C26_Witness ==
    /\ last.op = "open"
    /\ ~is_read_only
    /\ last.outcome = "Media"
    /\ MeetsConditions([last.boot_sector EXCEPT !.BPB_Media = 248])
    /\ ~initialized

\* The first open of a container after mkfs and close, with no call between
ReopenedAfterMkfs ==
    /\ last.op = "open"
    /\ hist.opens = 1
    /\ hist.calls = 0

\* C27: after mkfs(T, ...) with arguments mkfs accepts, close and a fresh
\* open of the same container, the open succeeds with fat_type = T, on FAT32
\* BPB_RootClus >= 2 and its chain ends at an end-of-chain cell, and the root
\* directory holds exactly one entry, the volume label.
C27_MkfsReopenRoundTrip ==
    ReopenedAfterMkfs =>
       /\ last.outcome = "ok"
       /\ fat_type = geom.mkfs.fat_type
       /\ fat_type = FAT_TYPE_FAT32 =>
             /\ geom.root_clus >= 2
             /\ get_cluster_chain(fat_type, fat, geom.root_clus).end = "eoc"
       /\ parse_root_dir(fat_type, geom, fat, img).entries = <<ATTR_VOLUME_ID>>

\* allocate_bytes for three clusters was the first call on a FAT16 volume
\* that mkfs made with 2048 bytes per cluster on a new container
AllocatedOnFreshFat16 ==
    /\ last.op = "alloc"
    /\ last.calls = 0
    /\ last.size = 2 * BytesPerCluster + 1
    /\ last.outcome \notin Rejections
    /\ geom.mkfs.fat_type = FAT_TYPE_FAT16
    /\ ~geom.mkfs.used
    /\ geom.bpb.BPB_BytsPerSec * geom.bpb.BPB_SecPerClus = 2048

Ascending(s) == \A k \in 1 .. (Len(s) - 1) : s[k] < s[k + 1]

\* C28 as stated: on an empty freshly-formatted FAT16 image with
\* bytes_per_cluster = 2048, allocate_bytes(5000) yields three clusters in
\* ascending order starting at 3.
C28_StartsAtThree ==
    AllocatedOnFreshFat16 =>
       /\ last.outcome = "ok"
       /\ Len(last.result) = 3
       /\ Ascending(last.result)
       /\ last.result[1] = 3

\* C28, amended: on an empty freshly-formatted FAT16 image with
\* bytes_per_cluster = 2048, allocate_bytes(5000) yields three clusters in
\* ascending order starting at 2.
C28_StartsAtTwo ==
    AllocatedOnFreshFat16 =>
       /\ last.outcome = "ok"
       /\ Len(last.result) = 3
       /\ Ascending(last.result)
       /\ last.result[1] = 2

\* The call was made on the volume after close and a fresh open
C28_Witness ==
    /\ AllocatedOnFreshFat16
    /\ hist.opens = 1
    /\ last.result = <<2, 3, 4>>

\* The table the FAT is initialized to for a media type, n cells long
InitialFat(ft, media_type, n) ==
    [j \in 1 .. n |->
        IF j = 1
        THEN (CASE ft = FAT_TYPE_FAT12 -> 4080
                [] ft = FAT_TYPE_FAT16 -> 65520
                [] OTHER -> 268435440) + (media_type % 16)
        ELSE IF j = 2
        THEN (CASE ft = FAT_TYPE_FAT12 -> 4080
                [] ft = FAT_TYPE_FAT16 -> 65535
                [] OTHER -> 268435455)
        ELSE FREE_CLUSTER(ft)]

\* C29: for every media type in {0xF0, 0xF8 .. 0xFF}, mkfs initializes FAT
\* cell 0 to the mask of the FAT type with the low nibble of the media type
\* in its low nibble, so that the low byte of FAT[0] is the media type, cell 1
\* to 0xFF0, 0xFFFF or 0x0FFFFFFF, all other cells to FREE (but for the root
\* cluster mkfs then allocates on FAT32), and writes all FAT copies.
C29_MkfsInitialFat ==
    (last.op = "mkfs" /\ last.outcome = "ok") =>
       LET ft == fat_type
           init == InitialFat(ft, geom.mkfs.media_type, FatLen(fat))
           enc == __bytes__(ft, init)
           n == MinOf(Len(enc), geom.fat_size)
       IN  /\ At(fat, 0) = At(init, 0)
           /\ At(fat, 0) % 256 = geom.mkfs.media_type
           /\ At(fat, 1) = At(init, 1)
           /\ \A i \in 2 .. (FatLen(fat) - 1) :
                 i # geom.root_clus => At(fat, i) = FREE_CLUSTER(ft)
           /\ \A k \in 0 .. (NumFATs - 1) :
                 ReadAt(img, first_fat_bytes(ft) + k * geom.fat_size, n) =
                    SubSeq(enc, 1, n)

\* The step is an observed allocate_bytes or write_data_to_cluster that
\* failed for lack of space
FailsForLackOfSpace ==
    /\ last' # last
    /\ last'.op \in {"alloc", "write"}
    /\ last'.outcome = "ENOSPC"

\* C30: a failure for lack of space changes nothing: when allocate_bytes
\* fails with the no-space error, and when write_data_to_cluster fails because
\* the data exceeds the capacity of the chain (extend_cluster false, or the
\* allocation of the extension fails), the FAT, first_free_cluster and every
\* byte of the data region are as before the call.
C30_NoSpaceChangesNothing ==
    [][FailsForLackOfSpace =>
          /\ fat' = fat
          /\ first_free_cluster' = first_free_cluster
          /\ disk' = disk]_vars

\* A write whose extension could not be allocated
C30_Witness ==
    /\ last.op = "write"
    /\ last.extend_cluster
    /\ last.outcome = "ENOSPC"
    /\ fat = last.fat0

----------------------------------------------------------------------------
(* Claims about directory scans, cluster addresses and failed calls *)

\* The entries among the records before the first last-entry mark
RECURSIVE UpToLastMark(_)
UpToLastMark(recs) ==
    IF recs = <<>> \/ Head(recs) = LAST_DIR_ENTRY_MARK THEN <<>>
    ELSE IF Head(recs) = FREE_DIR_ENTRY_MARK THEN UpToLastMark(Tail(recs))
    ELSE <<Head(recs)>> \o UpToLastMark(Tail(recs))

\* C31: a directory scan, of a fixed range or of a cluster chain, returns no
\* entry from a record located after a record whose first byte is 0x00, in
\* the same cluster or in a later cluster of the chain; a record whose first
\* byte is 0xE5 is skipped and the scan goes on.
C31_ScanStopsAtLastMark ==
    last.op \in {"scan_chain", "scan_range"} =>
       last.entries = UpToLastMark(last.records)

\* The cells thread a freed and the cells thread b allocated, once both calls
\* have returned and the two sets are disjoint
FreedAndAllocated(a, b) ==
    /\ threads[a].op = "free" /\ threads[a].outcome = "ok"
    /\ threads[a].freed # <<>>
    /\ threads[b].op = "alloc" /\ threads[b].outcome = "ok"
    /\ threads[b].free_clusters # <<>>
    /\ SeqSet(threads[a].freed) \cap SeqSet(threads[b].free_clusters) = {}

\* C32: no FAT update is lost under concurrency: when one thread frees the
\* chain of h1 while another allocates cells that are not in that chain, after
\* both calls have returned every cell of h1's chain is FREE and the new
\* chain is linked cell to cell and ends in an end-of-chain mark.
C32_NoLostFatUpdate ==
    \A a, b \in Threads :
       FreedAndAllocated(a, b) =>
          /\ \A c \in SeqSet(threads[a].freed) :
                At(fat, c) = FREE_CLUSTER(fat_type)
          /\ LET chain == get_cluster_chain(fat_type, fat,
                                            threads[b].free_clusters[1])
             IN  chain.end = "eoc" /\ chain.cells = threads[b].free_clusters

\* Thread t is inside a with statement on the lock
InLockedSection(t) ==
    threads[t].pc \in {"seek", "io", "release", "free_loop", "free_assign",
                       "hang"}

\* Thread t waits at a with statement on the lock
WaitsForLock(t) == threads[t].pc \in {"acquire", "free_acquire"}

\* C35: the volume lock is never acquired by a thread that already holds it
\* and is released on every exit path, errors included: a thread holds it
\* exactly while it is inside a locked section. With several threads that are
\* scheduled fairly and container I/O that returns, every operation that
\* waits for the lock eventually acquires it.
C35_LockReleasedAndAcquired ==
    /\ [](\A t \in Threads : (lock = t) <=> InLockedSection(t))
    /\ \A t \in Threads : WaitsForLock(t) ~> (lock = t)
\* A volume the instance at hand can work on: mkfs or open has returned and
\* no later call has failed
UsableInstance ==
    /\ fp = "open"
    /\ initialized
    /\ last.op \in {"mkfs", "alloc", "open"}
    /\ last.outcome = "ok"

\* The first byte after the reserved sectors, the FAT copies and the sectors
\* of the FAT12/16 root directory
EndOfRootRegion(h) ==
    (h.BPB_RsvdSecCnt + h.BPB_NumFATs * _get_fat_size_count(h) +
     RootDirSectorsOf(h)) * h.BPB_BytsPerSec

\* C33: in every usable state of an instance, after open and after mkfs on
\* the same instance and for every FAT type, get_data_cluster_address uses
\* first_data_sector = RsvdSecCnt + NumFATs x FATSz + root_dir_sectors, so no
\* cluster lies in the reserved region, the FAT copies or the FAT12/16 root
\* directory.
C33_ClustersAfterRootRegion ==
    UsableInstance =>
       LET h == geom.bpb
           fds == first_data_sector(h, MadeByThisInstance)
       IN  /\ fds * h.BPB_BytsPerSec = EndOfRootRegion(h)
           /\ \A c \in 2 .. 3 :
                 DataClusterAddress(h, fds, c) >= EndOfRootRegion(h)
\* count_of_clusters: the clusters the data region of the container holds
ClustersOnVolume ==
    (Len(img) - first_data_byte(fat_type, geom)) \div BytesPerCluster

\* C34: every cluster index allocate_bytes returns, on an opened volume and
\* on a volume mkfs made, is below count_of_clusters + 2, so the cluster lies
\* wholly inside the volume.
C34_AllocatedInsideVolume ==
    (last.op = "alloc" /\ last.outcome = "ok") =>
       \A k \in 1 .. Len(last.result) :
          last.result[k] < ClustersOnVolume + 2
\* The last call was an open or a mkfs that raised
OpenOrMkfsFailed == last.op \in {"open", "mkfs"} /\ last.outcome # "ok"

\* C36: initialized is true only while a container is attached and its boot
\* sector was parsed (open) or built and verified (mkfs) successfully: a
\* failed open and a failed mkfs leave initialized false, and a failed mkfs
\* leaves is_read_only as the constructor set it.
C36_InitializedOnlyAfterSuccess ==
    /\ initialized => fp = "open"
    /\ OpenOrMkfsFailed => ~initialized
    /\ (last.op = "mkfs" /\ last.outcome # "ok") => is_read_only

====
